---- MODULE Spec2Model ----
(***************************************************************************)
(* Model of performance-intelligence: the risk-scoring engine              *)
(* (src/lib/riskEngine.ts), the revenue model of the analyze route         *)
(* (src/app/api/analyze/route.ts: computeRevenueImpact), the rate limiter  *)
(* (src/lib/rateLimit.ts), the cache (src/lib/cache.ts) and the GET        *)
(* handler of the analyze route with its calls interleaved at the awaits.  *)
(*                                                                         *)
(* The engine computes with JavaScript numbers, i.e. IEEE-754 binary64.    *)
(* The model keeps that arithmetic: a number is a record [neg, m, e]       *)
(* standing for (-1)^neg * m * 2^e, where the significand m is an          *)
(* arbitrary-precision natural (a little-endian sequence of limbs of       *)
(* LimbBits bits) holding at most 53 significant bits, and every operation *)
(* rounds its exact result to 53 bits, ties to even, as the hardware does. *)
(* All values that occur are far from the overflow and subnormal ranges,   *)
(* so exponents are unbounded.                                             *)
(***************************************************************************)
EXTENDS Integers, Sequences, FiniteSets, TLC

----------------------------------------------------------------------------
(* Arbitrary-precision naturals: little-endian limb sequences, no leading  *)
(* (high) zero limb; zero is the empty sequence.                           *)

LimbBits == 12
Base == 2^LimbBits

Limb(a, i) == IF i <= Len(a) THEN a[i] ELSE 0

RECURSIVE NTrim(_)
NTrim(a) ==
    IF a = << >> THEN a
    ELSE IF a[Len(a)] = 0 THEN NTrim(SubSeq(a, 1, Len(a) - 1))
    ELSE a

RECURSIVE NFromInt(_)
NFromInt(n) == IF n = 0 THEN << >> ELSE <<n % Base>> \o NFromInt(n \div Base)

RECURSIVE NToInt(_)
NToInt(a) == IF a = << >> THEN 0 ELSE a[1] + Base * NToInt(Tail(a))

\* a + b + c from limb i on, c the carry into limb i
RECURSIVE NAddC(_, _, _, _)
NAddC(a, b, i, c) ==
    IF i > Len(a) /\ i > Len(b)
    THEN (IF c = 0 THEN << >> ELSE <<c>>)
    ELSE <<(Limb(a, i) + Limb(b, i) + c) % Base>>
         \o NAddC(a, b, i + 1, (Limb(a, i) + Limb(b, i) + c) \div Base)

NAdd(a, b) == NAddC(a, b, 1, 0)

\* a - b - c from limb i on, for a >= b, c the borrow out of limb i - 1
RECURSIVE NSubC(_, _, _, _)
NSubC(a, b, i, c) ==
    IF i > Len(a) THEN << >>
    ELSE IF a[i] - Limb(b, i) - c < 0
         THEN <<a[i] - Limb(b, i) - c + Base>> \o NSubC(a, b, i + 1, 1)
         ELSE <<a[i] - Limb(b, i) - c>> \o NSubC(a, b, i + 1, 0)

NSub(a, b) == NTrim(NSubC(a, b, 1, 0))

\* -1, 0, 1 as a < b, a = b, a > b
RECURSIVE NCmpAt(_, _, _)
NCmpAt(a, b, i) ==
    IF i = 0 THEN 0
    ELSE IF a[i] < b[i] THEN -1
    ELSE IF a[i] > b[i] THEN 1
    ELSE NCmpAt(a, b, i - 1)

NCmp(a, b) ==
    IF Len(a) < Len(b) THEN -1
    ELSE IF Len(a) > Len(b) THEN 1
    ELSE NCmpAt(a, b, Len(a))

\* a * k + c from limb i on, for a small natural k (k < 2^18)
RECURSIVE NMulSmallC(_, _, _, _)
NMulSmallC(a, k, i, c) ==
    IF i > Len(a) THEN NFromInt(c)
    ELSE <<(a[i] * k + c) % Base>> \o NMulSmallC(a, k, i + 1, (a[i] * k + c) \div Base)

NMulSmall(a, k) == IF k = 0 THEN << >> ELSE NMulSmallC(a, k, 1, 0)

NShlLimbs(a, n) == IF a = << >> THEN a ELSE [i \in 1..n |-> 0] \o a

RECURSIVE NMulAt(_, _, _)
NMulAt(a, b, i) ==
    IF i > Len(b) THEN << >>
    ELSE NAdd(NShlLimbs(NMulSmall(a, b[i]), i - 1), NMulAt(a, b, i + 1))

NMul(a, b) == NMulAt(a, b, 1)

\* floor((r * Base^i + a[1..i]) / d) for a small positive d (d < 2^18), r < d
RECURSIVE NDivSmallAt(_, _, _, _)
NDivSmallAt(a, d, i, r) ==
    IF i = 0 THEN << >>
    ELSE NDivSmallAt(a, d, i - 1, (r * Base + a[i]) % d) \o <<(r * Base + a[i]) \div d>>

NDivSmall(a, d) == NTrim(NDivSmallAt(a, d, Len(a), 0))

NShl(a, n) == NShlLimbs(NMulSmall(a, 2^(n % LimbBits)), n \div LimbBits)

NShr(a, n) ==
    IF n \div LimbBits >= Len(a) THEN << >>
    ELSE NDivSmall(SubSeq(a, n \div LimbBits + 1, Len(a)), 2^(n % LimbBits))

RECURSIVE BitLenInt(_)
BitLenInt(n) == IF n = 0 THEN 0 ELSE 1 + BitLenInt(n \div 2)

NBitLen(a) == IF a = << >> THEN 0 ELSE LimbBits * (Len(a) - 1) + BitLenInt(a[Len(a)])

\* bit n (bit 0 is the least significant)
NBit(a, n) == (Limb(a, n \div LimbBits + 1) \div 2^(n % LimbBits)) % 2

\* are the n low bits of a all zero?
NLowZero(a, n) ==
    /\ \A i \in 1..(n \div LimbBits) : Limb(a, i) = 0
    /\ Limb(a, n \div LimbBits + 1) % 2^(n % LimbBits) = 0

\* Schoolbook long division, one limb of the dividend at a time, for a
\* divisor b whose top limb is at least Base/2: the quotient limb estimated
\* from the top limbs of the remainder is then at most 2 too large.
NDivLimbFrom(b, r, t) ==
    IF NCmp(NMulSmall(b, t), r) <= 0 THEN t
    ELSE IF NCmp(NMulSmall(b, t - 1), r) <= 0 THEN t - 1
    ELSE t - 2

NDivEstimate(b, r) ==
    IF (Limb(r, Len(b) + 1) * Base + Limb(r, Len(b))) \div b[Len(b)] > Base - 1
    THEN Base - 1
    ELSE (Limb(r, Len(b) + 1) * Base + Limb(r, Len(b))) \div b[Len(b)]

NDivPut(b, q, r, t) == << <<t>> \o q, NSub(r, NMulSmall(b, t)) >>

\* one step: r is the remainder with the next limb brought down
NDivStep(b, q, r) == NDivPut(b, q, r, NDivLimbFrom(b, r, NDivEstimate(b, r)))

\* <<quotient limbs i .. Len(a), remainder>> of the limbs i .. Len(a) of a
RECURSIVE NDivModAt(_, _, _)
NDivModAt(a, b, i) ==
    IF i > Len(a) THEN << << >>, << >> >>
    ELSE (LET prev == NDivModAt(a, b, i + 1)
          IN  \* the remainder so far is below the divisor
              IF Len(prev[2]) > Len(b) THEN prev
              ELSE NDivStep(b, prev[1], NTrim(<<a[i]>> \o prev[2])))

NDivUnshift(qr, sh) == << NTrim(qr[1]), NShr(qr[2], sh) >>

NDivShifted(a, b, sh) == NDivUnshift(NDivModAt(NShl(a, sh), NShl(b, sh), 1), sh)

\* <<floor(a / b), a mod b>> for b > 0
NDivMod(a, b) == NDivShifted(a, b, LimbBits - BitLenInt(b[Len(b)]))

----------------------------------------------------------------------------
(* IEEE-754 binary64 numbers: [neg, m, e] is (-1)^neg * m * 2^e, with at   *)
(* most 53 significant bits in m.  FRound is round-to-nearest, ties to     *)
(* even, applied to the exact result of every operation.                   *)

Precision == 53

FZero == [neg |-> FALSE, m |-> << >>, e |-> 0]

\* q: the significand cut to 53 bits; half, sticky: the first bit cut off,
\* and whether any lower bit was set
FRoundUp(neg, q, e, half, sticky) ==
    [neg |-> neg,
     m   |-> IF half /\ (sticky \/ NBit(q, 0) = 1) THEN NAdd(q, <<1>>) ELSE q,
     e   |-> e]

\* s >= 1 bits are cut off
FRoundCut(neg, m, e, s) ==
    FRoundUp(neg, NShr(m, s), e + s, NBit(m, s - 1) = 1, ~NLowZero(m, s - 1))

FRoundLen(neg, m, e, len) ==
    IF len = 0 THEN FZero
    ELSE IF len <= Precision THEN [neg |-> neg, m |-> m, e |-> e]
    ELSE FRoundCut(neg, m, e, len - Precision)

FRound(neg, m, e) == FRoundLen(neg, m, e, NBitLen(m))

FInt(n) == [neg |-> n < 0, m |-> NFromInt(IF n < 0 THEN -n ELSE n), e |-> 0]

FNeg(x) == IF x.m = << >> THEN x ELSE [x EXCEPT !.neg = ~x.neg]

MinInt(a, b) == IF a < b THEN a ELSE b

\* the significand of x at exponent e <= x.e
FAlign(x, e) == NShl(x.m, x.e - e)

\* compare magnitudes: -1, 0, 1
FCmpAbs(x, y) == NCmp(FAlign(x, MinInt(x.e, y.e)), FAlign(y, MinInt(x.e, y.e)))

\* -1, 0, 1 as x < y, x = y, x > y
FCmp(x, y) ==
    IF x.neg # y.neg THEN (IF x.neg THEN -1 ELSE 1)
    ELSE IF x.neg THEN -FCmpAbs(x, y)
    ELSE FCmpAbs(x, y)

FLt(x, y) == FCmp(x, y) < 0
FLe(x, y) == FCmp(x, y) <= 0

\* the exact sum of two signed significands at a common exponent
FSum(xneg, xm, yneg, ym) ==
    IF xneg = yneg THEN [neg |-> xneg, m |-> NAdd(xm, ym)]
    ELSE IF NCmp(xm, ym) >= 0 THEN [neg |-> xneg, m |-> NSub(xm, ym)]
    ELSE [neg |-> yneg, m |-> NSub(ym, xm)]

FRoundSum(sum, e) == FRound(sum.neg, sum.m, e)

FAddAt(x, y, e) == FRoundSum(FSum(x.neg, FAlign(x, e), y.neg, FAlign(y, e)), e)

FAdd(x, y) == FAddAt(x, y, MinInt(x.e, y.e))

FSub(x, y) == FAdd(x, FNeg(y))

FMul(x, y) ==
    IF x.m = << >> \/ y.m = << >> THEN FZero
    ELSE FRound(x.neg # y.neg, NMul(x.m, y.m), x.e + y.e)

\* qr: quotient and remainder of the significands, the dividend shifted left
\* by k bits; the remainder only leaves a sticky bit below the quotient
FDivRound(neg, qr, e) ==
    FRound(neg, NAdd(NMulSmall(qr[1], 2), IF qr[2] = << >> THEN << >> ELSE <<1>>), e - 1)

FDivShifted(x, y, k) ==
    FDivRound(x.neg # y.neg, NDivMod(NShl(x.m, k), y.m), x.e - y.e - k)

\* x / y for y # 0: the quotient is taken to at least 55 bits
FDiv(x, y) ==
    IF x.m = << >> THEN FZero
    ELSE IF NBitLen(y.m) - NBitLen(x.m) + Precision + 3 < 0 THEN FDivShifted(x, y, 0)
    ELSE FDivShifted(x, y, NBitLen(y.m) - NBitLen(x.m) + Precision + 3)

\* the number a decimal literal n/d denotes (the nearest binary64 value)
FDec(n, d) == FDiv(FInt(n), FInt(d))

FMax(x, y) == IF FLt(x, y) THEN y ELSE x
FMin(x, y) == IF FLt(y, x) THEN y ELSE x

\* Math.round: the nearest integer, ties towards +Infinity; as a TLA+ integer
MathRound(x) ==
    IF x.e >= 0 THEN (IF x.neg THEN -1 ELSE 1) * NToInt(NShl(x.m, x.e))
    ELSE IF ~x.neg THEN NToInt(NShr(x.m, -x.e)) + NBit(x.m, -x.e - 1)
    ELSE -(NToInt(NShr(x.m, -x.e))
           + (IF NBit(x.m, -x.e - 1) = 1 /\ ~NLowZero(x.m, -x.e - 1) THEN 1 ELSE 0))

----------------------------------------------------------------------------
(* src/lib/riskEngine.ts                                                   *)

\* numeric literals of the source
Zero    == FZero
Hundred == FInt(100)
Lit_0_1  == FDec(1, 10)
Lit_0_15 == FDec(15, 100)
Lit_0_2  == FDec(2, 10)
Lit_0_25 == FDec(25, 100)
Lit_0_3  == FDec(3, 10)
Lit_0_35 == FDec(35, 100)
Lit_0_4  == FDec(4, 10)
Lit_0_5  == FDec(5, 10)

\* a LighthouseMetrics value: the model writes the seven millisecond/count
\* fields as integers and cls in thousandths (cls = 150 is the number 0.15)
Num(metrics) ==
    [lcp            |-> FInt(metrics.lcp),
     cls            |-> FDec(metrics.cls, 1000),
     inp            |-> FInt(metrics.inp),
     tbt            |-> FInt(metrics.tbt),
     fcp            |-> FInt(metrics.fcp),
     speedIndex     |-> FInt(metrics.speedIndex),
     domSize        |-> FInt(metrics.domSize),
     mainThreadWork |-> FInt(metrics.mainThreadWork)]

\* a faulty variant: the result is clamped but not rounded
clampScoreNoRound(value) == FMax(Zero, FMin(Hundred, value))

clampScore(value) == FInt(MathRound(FMax(Zero, FMin(Hundred, value))))

\* a faulty variant: the fraction of the range is not scaled to 0..100
linearRiskFraction(value, low, high) ==
    IF FLe(value, low) THEN Zero
    ELSE IF FLe(high, value) THEN Hundred
    ELSE FDiv(FSub(value, low), FSub(high, low))

linearRisk(value, low, high) ==
    IF FLe(value, low) THEN Zero
    ELSE IF FLe(high, value) THEN Hundred
    ELSE FMul(FDiv(FSub(value, low), FSub(high, low)), Hundred)

calculateSpeedRisk(metrics) ==
    LET lcpRisk        == linearRisk(metrics.lcp, FInt(2500), FInt(5000))
        tbtRisk        == linearRisk(metrics.tbt, FInt(300), FInt(600))
        speedIndexRisk == linearRisk(metrics.speedIndex, FInt(3000), FInt(6000))
        combined == FAdd(FAdd(FMul(lcpRisk, Lit_0_4), FMul(tbtRisk, Lit_0_35)),
                         FMul(speedIndexRisk, Lit_0_25))
    IN  clampScore(combined)

calculateUxRisk(metrics) ==
    LET clsRisk == linearRisk(metrics.cls, Lit_0_1, Lit_0_25)
        inpRisk == linearRisk(metrics.inp, FInt(200), FInt(500))
        tbtRisk == linearRisk(metrics.tbt, FInt(300), FInt(600))
        combined == FAdd(FAdd(FMul(clsRisk, Lit_0_4), FMul(inpRisk, Lit_0_35)),
                         FMul(tbtRisk, Lit_0_25))
    IN  clampScore(combined)

\* a faulty variant: the second sub-metric is read from tbt instead of fcp
calculateSeoRiskFromTbt(metrics) ==
    LET lcpRisk        == linearRisk(metrics.lcp, FInt(2500), FInt(5000))
        fcpRisk        == linearRisk(metrics.tbt, FInt(300), FInt(600))
        speedIndexRisk == linearRisk(metrics.speedIndex, FInt(3000), FInt(6000))
        combined == FAdd(FAdd(FMul(lcpRisk, Lit_0_5), FMul(fcpRisk, Lit_0_25)),
                         FMul(speedIndexRisk, Lit_0_25))
    IN  clampScore(combined)

calculateSeoRisk(metrics) ==
    LET lcpRisk        == linearRisk(metrics.lcp, FInt(2500), FInt(5000))
        fcpRisk        == linearRisk(metrics.fcp, FInt(1800), FInt(3000))
        speedIndexRisk == linearRisk(metrics.speedIndex, FInt(3000), FInt(6000))
        combined == FAdd(FAdd(FMul(lcpRisk, Lit_0_5), FMul(fcpRisk, Lit_0_25)),
                         FMul(speedIndexRisk, Lit_0_25))
    IN  clampScore(combined)

calculateConversionRisk(metrics) ==
    LET lcpRisk == linearRisk(metrics.lcp, FInt(2500), FInt(5000))
        inpRisk == linearRisk(metrics.inp, FInt(200), FInt(500))
        tbtRisk == linearRisk(metrics.tbt, FInt(300), FInt(600))
        combined == FAdd(FAdd(FMul(lcpRisk, Lit_0_35), FMul(inpRisk, Lit_0_35)),
                         FMul(tbtRisk, Lit_0_3))
    IN  clampScore(combined)

calculateScalingRisk(metrics) ==
    LET domRisk        == linearRisk(metrics.domSize, FInt(1500), FInt(3000))
        mainThreadRisk == linearRisk(metrics.mainThreadWork, FInt(3000), FInt(6000))
        tbtRisk        == linearRisk(metrics.tbt, FInt(300), FInt(600))
        combined == FAdd(FAdd(FMul(domRisk, Lit_0_35), FMul(mainThreadRisk, Lit_0_35)),
                         FMul(tbtRisk, Lit_0_3))
    IN  clampScore(combined)

HEALTH_WEIGHTS ==
    [speed |-> Lit_0_3, ux |-> Lit_0_25, seo |-> Lit_0_15,
     conversion |-> Lit_0_2, scaling |-> Lit_0_1]

\* the weighted sum of calculateOverallHealth, w the weights
weightedRiskOf(w, speedRisk, uxRisk, seoRisk, conversionRisk, scalingRisk) ==
    FAdd(FAdd(FAdd(FAdd(FMul(speedRisk, w.speed), FMul(uxRisk, w.ux)),
                   FMul(seoRisk, w.seo)),
              FMul(conversionRisk, w.conversion)),
         FMul(scalingRisk, w.scaling))

\* a faulty variant: the scaling term is subtracted from the weighted risk
calculateOverallHealthSign(speedRisk, uxRisk, seoRisk, conversionRisk, scalingRisk) ==
    clampScore(FSub(Hundred,
                    weightedRiskOf(HEALTH_WEIGHTS, speedRisk, uxRisk, seoRisk,
                                   conversionRisk, FNeg(scalingRisk))))

calculateOverallHealth(speedRisk, uxRisk, seoRisk, conversionRisk, scalingRisk) ==
    clampScore(FSub(Hundred,
                    weightedRiskOf(HEALTH_WEIGHTS, speedRisk, uxRisk, seoRisk,
                                   conversionRisk, scalingRisk)))

computeAllScores(metrics) ==
    LET speedRisk      == calculateSpeedRisk(metrics)
        uxRisk         == calculateUxRisk(metrics)
        seoRisk        == calculateSeoRisk(metrics)
        conversionRisk == calculateConversionRisk(metrics)
        scalingRisk    == calculateScalingRisk(metrics)
    IN  [speedRisk |-> speedRisk, uxRisk |-> uxRisk, seoRisk |-> seoRisk,
         conversionRisk |-> conversionRisk, scalingRisk |-> scalingRisk,
         overallHealth |-> calculateOverallHealth(speedRisk, uxRisk, seoRisk,
                                                  conversionRisk, scalingRisk)]

\* a faulty variant: the cut points are excluded from the lower label
getRiskLevelStrict(score) ==
    IF FLt(score, FInt(39)) THEN "Low"
    ELSE IF FLt(score, FInt(69)) THEN "Medium"
    ELSE "High"

getRiskLevel(score) ==
    IF FLe(score, FInt(39)) THEN "Low"
    ELSE IF FLe(score, FInt(69)) THEN "Medium"
    ELSE "High"

FIX_WEIGHTS ==
    [speed |-> Lit_0_3, ux |-> Lit_0_25, seo |-> Lit_0_15,
     conversion |-> Lit_0_2, scaling |-> Lit_0_1]

\* a faulty variant: the cut points are excluded from the higher label
priorityFromScoreStrict(score) ==
    IF FLt(FInt(70), score) THEN "High"
    ELSE IF FLt(FInt(40), score) THEN "Medium"
    ELSE "Low"

priorityFromScore(score) ==
    IF FLe(FInt(70), score) THEN "High"
    ELSE IF FLe(FInt(40), score) THEN "Medium"
    ELSE "Low"

\* the categories array of generateFixPriorities, in its fixed order
fixCategories(scores) ==
    << [name |-> "speed", score |-> scores.speedRisk,
        weightedImpact |-> FMul(scores.speedRisk, FIX_WEIGHTS.speed)],
       [name |-> "ux", score |-> scores.uxRisk,
        weightedImpact |-> FMul(scores.uxRisk, FIX_WEIGHTS.ux)],
       [name |-> "seo", score |-> scores.seoRisk,
        weightedImpact |-> FMul(scores.seoRisk, FIX_WEIGHTS.seo)],
       [name |-> "conversion", score |-> scores.conversionRisk,
        weightedImpact |-> FMul(scores.conversionRisk, FIX_WEIGHTS.conversion)],
       [name |-> "scaling", score |-> scores.scalingRisk,
        weightedImpact |-> FMul(scores.scalingRisk, FIX_WEIGHTS.scaling)] >>

\* the comparator handed to sort: negative when a is to come before b
compareImpact(a, b) == FSub(b.weightedImpact, a.weightedImpact)

\* Array.prototype.sort is stable: an element goes behind every earlier
\* element that the comparator does not put strictly after it
RECURSIVE InsertByImpact(_, _)
InsertByImpact(sorted, c) ==
    IF sorted = << >> THEN <<c>>
    ELSE IF compareImpact(c, Head(sorted)).neg THEN <<c>> \o sorted
    ELSE <<Head(sorted)>> \o InsertByImpact(Tail(sorted), c)

RECURSIVE SortByImpact(_, _)
SortByImpact(cs, n) ==
    IF n = 0 THEN << >> ELSE InsertByImpact(SortByImpact(cs, n - 1), cs[n])

\* a faulty variant: the label is taken from the weighted impact
fixEntryByImpact(c) ==
    [category |-> c.name, score |-> c.score,
     priority |-> priorityFromScore(c.weightedImpact)]

\* the entry returned for a category
fixEntry(c) ==
    [category |-> c.name, score |-> c.score, priority |-> priorityFromScore(c.score)]

\* .slice(0, 3).map(...)
fixEntries(sorted) == <<fixEntry(sorted[1]), fixEntry(sorted[2]), fixEntry(sorted[3])>>

generateFixPriorities(scores) == fixEntries(SortByImpact(fixCategories(scores), 5))

\* the en dash of the source's range strings is written "-"
\* a faulty variant: the thresholds are checked lowest first
estimateBusinessImpactLowFirst(overallHealth) ==
    IF FLe(FInt(30), overallHealth)
    THEN [impact_level |-> "Severe", estimated_conversion_loss |-> "15-25%"]
    ELSE [impact_level |-> "Critical", estimated_conversion_loss |-> "25%+"]

estimateBusinessImpact(overallHealth) ==
    IF FLe(FInt(85), overallHealth)
    THEN [impact_level |-> "Minimal", estimated_conversion_loss |-> "0-3%"]
    ELSE IF FLe(FInt(70), overallHealth)
    THEN [impact_level |-> "Moderate", estimated_conversion_loss |-> "3-8%"]
    ELSE IF FLe(FInt(50), overallHealth)
    THEN [impact_level |-> "Significant", estimated_conversion_loss |-> "8-15%"]
    ELSE IF FLe(FInt(30), overallHealth)
    THEN [impact_level |-> "Severe", estimated_conversion_loss |-> "15-25%"]
    ELSE [impact_level |-> "Critical", estimated_conversion_loss |-> "25%+"]

----------------------------------------------------------------------------
(* src/app/api/analyze/route.ts: computeRevenueImpact                      *)

One      == FInt(1)
Lit_0_05 == FDec(5, 100)
Lit_0_08 == FDec(8, 100)
Lit_0_6  == FDec(6, 10)
Lit_0_9  == FDec(9, 10)
Lit_1_2  == FDec(12, 10)
Lit_1_3  == FDec(13, 10)
Lit_2_5  == FDec(25, 10)

\* NaN: the one record no arithmetic on numbers produces (an empty
\* significand with a nonzero exponent)
NaN == [neg |-> FALSE, m |-> << >>, e |-> 1]

IsNaN(x) == x.m = << >> /\ x.e # 0

\* x * y, Math.min and Math.round where an operand may be NaN
Times(x, y) == IF IsNaN(x) \/ IsNaN(y) THEN NaN ELSE FMul(x, y)

MathMin(x, y) == IF IsNaN(x) \/ IsNaN(y) THEN NaN ELSE FMin(x, y)

MathRoundNum(x) == IF IsNaN(x) THEN NaN ELSE FInt(MathRound(x))

INDUSTRY_MULTIPLIER ==
    [ecommerce |-> Lit_1_2, finance |-> Lit_1_3, saas |-> One,
     healthcare |-> Lit_0_9, general |-> One]

\* INDUSTRY_MULTIPLIER is an object literal: besides its five own keys a
\* lookup finds the properties it inherits from Object.prototype
ObjectPrototypeKeys ==
    {"constructor", "__proto__", "hasOwnProperty", "isPrototypeOf",
     "propertyIsEnumerable", "toLocaleString", "toString", "valueOf"}

\* INDUSTRY_MULTIPLIER[industry] ?? 1.0, as the factor of the products that
\* follow: an inherited property is a function or an object, not null or
\* undefined, so ?? keeps it, and as a factor it converts to NaN
industryMultiplier(industry) ==
    IF industry \in DOMAIN INDUSTRY_MULTIPLIER THEN INDUSTRY_MULTIPLIER[industry]
    ELSE IF industry \in ObjectPrototypeKeys THEN NaN
    ELSE One

\* The (minDrop, maxDrop) pair a ladder adds; a ladder that adds nothing is
\* written as adding 0, which leaves a number unchanged.
NoDrop == <<Zero, Zero>>

lcpDrop(lcpSeconds) ==
    IF FLt(FInt(4), lcpSeconds) THEN <<Lit_0_25, Lit_0_35>>
    ELSE IF FLt(FInt(3), lcpSeconds) THEN <<Lit_0_2, Lit_0_3>>
    ELSE IF FLt(Lit_2_5, lcpSeconds) THEN <<Lit_0_1, Lit_0_15>>
    ELSE NoDrop

clsDrop(cls) ==
    IF FLt(Lit_0_25, cls) THEN <<Lit_0_1, Lit_0_2>>
    ELSE IF FLt(Lit_0_1, cls) THEN <<Lit_0_05, Lit_0_1>>
    ELSE NoDrop

\* inpMs is << >> for null and <<x>> for the number x
inpIsSlow(inpMs) == inpMs # << >> /\ FLt(FInt(500), inpMs[1])

inpDrop(inpMs) == IF inpIsSlow(inpMs) THEN <<Lit_0_1, Lit_0_15>> ELSE NoDrop

mobileDrop(mobilePerformanceScore) ==
    IF FLt(mobilePerformanceScore, FInt(50)) THEN <<Lit_0_15, Lit_0_25>>
    ELSE IF FLt(mobilePerformanceScore, FInt(70)) THEN <<Lit_0_08, Lit_0_15>>
    ELSE NoDrop

addDrop(p, q) == <<FAdd(p[1], q[1]), FAdd(p[2], q[2])>>

sumDrops(inputs) ==
    addDrop(addDrop(addDrop(addDrop(NoDrop, lcpDrop(inputs.lcpSeconds)),
                            clsDrop(inputs.cls)),
                    inpDrop(inputs.inpMs)),
            mobileDrop(inputs.mobilePerformanceScore))

capDrops(p) ==
    << IF FLt(Lit_0_5, p[1]) THEN Lit_0_5 ELSE p[1],
       IF FLt(Lit_0_6, p[2]) THEN Lit_0_6 ELSE p[2] >>

scaleDrops(p, multiplier) == <<Times(p[1], multiplier), Times(p[2], multiplier)>>

mobileWeightOf(mobileTrafficPercent) ==
    FDiv(FMin(Hundred, FMax(Zero, mobileTrafficPercent)), Hundred)

adjustedLoss(monthlyRevenue, drop, mobileWeight) ==
    MathMin(Times(Times(monthlyRevenue, drop), mobileWeight), monthlyRevenue)

\* a faulty variant: field data counts 50
confidenceOfFieldData(inputs, mobileTrafficPercent) ==
    (IF inputs.fieldDataAvailable THEN 50 ELSE 10)
    + (IF inputs.poorCWVCount >= 2 THEN 25
       ELSE IF inputs.poorCWVCount = 1 THEN 15 ELSE 5)
    + (IF FLe(FInt(60), mobileTrafficPercent) THEN 20
       ELSE IF FLe(FInt(30), mobileTrafficPercent) THEN 10 ELSE 5)
    + (IF FLt(FInt(4), inputs.lcpSeconds) \/ FLt(inputs.mobilePerformanceScore, FInt(40))
       THEN 15 ELSE 10)

\* a faulty variant: one poor Core Web Vital counts like two
confidenceOfOnePoor(inputs, mobileTrafficPercent) ==
    (IF inputs.fieldDataAvailable THEN 30 ELSE 10)
    + (IF inputs.poorCWVCount >= 1 THEN 25 ELSE 5)
    + (IF FLe(FInt(60), mobileTrafficPercent) THEN 20
       ELSE IF FLe(FInt(30), mobileTrafficPercent) THEN 10 ELSE 5)
    + (IF FLt(FInt(4), inputs.lcpSeconds) \/ FLt(inputs.mobilePerformanceScore, FInt(40))
       THEN 15 ELSE 10)

\* the confidence before the cap; the terms are small integers
confidenceOf(inputs, mobileTrafficPercent) ==
    (IF inputs.fieldDataAvailable THEN 30 ELSE 10)
    + (IF inputs.poorCWVCount >= 2 THEN 25
       ELSE IF inputs.poorCWVCount = 1 THEN 15 ELSE 5)
    + (IF FLe(FInt(60), mobileTrafficPercent) THEN 20
       ELSE IF FLe(FInt(30), mobileTrafficPercent) THEN 10 ELSE 5)
    + (IF FLt(FInt(4), inputs.lcpSeconds) \/ FLt(inputs.mobilePerformanceScore, FInt(40))
       THEN 15 ELSE 10)

capConfidence(confidence) == IF confidence > 100 THEN 100 ELSE confidence

\* a faulty variant: the cut points are excluded from the higher label
confidenceLabelOfStrict(confidence) ==
    IF confidence > 75 THEN "High" ELSE IF confidence > 45 THEN "Medium" ELSE "Low"

confidenceLabelOf(confidence) ==
    IF confidence >= 75 THEN "High" ELSE IF confidence >= 45 THEN "Medium" ELSE "Low"

\* a faulty variant: the LCP label follows the capped confidence term
riskDriversOfCoarse(inputs) ==
    [lcpImpact    |-> IF FLt(FInt(4), inputs.lcpSeconds) THEN "High" ELSE "None",
     clsImpact    |-> IF FLt(Lit_0_25, inputs.cls) THEN "High"
                      ELSE IF FLt(Lit_0_1, inputs.cls) THEN "Moderate" ELSE "Low",
     inpImpact    |-> IF inpIsSlow(inputs.inpMs) THEN "High" ELSE "Low",
     mobileImpact |-> IF FLt(inputs.mobilePerformanceScore, FInt(50)) THEN "High"
                      ELSE IF FLt(inputs.mobilePerformanceScore, FInt(70)) THEN "Moderate"
                      ELSE "Low"]

riskDriversOf(inputs) ==
    [lcpImpact    |-> IF FLt(FInt(4), inputs.lcpSeconds) THEN "High"
                      ELSE IF FLt(FInt(3), inputs.lcpSeconds) THEN "Moderate"
                      ELSE IF FLt(Lit_2_5, inputs.lcpSeconds) THEN "Low" ELSE "None",
     clsImpact    |-> IF FLt(Lit_0_25, inputs.cls) THEN "High"
                      ELSE IF FLt(Lit_0_1, inputs.cls) THEN "Moderate" ELSE "Low",
     inpImpact    |-> IF inpIsSlow(inputs.inpMs) THEN "High" ELSE "Low",
     mobileImpact |-> IF FLt(inputs.mobilePerformanceScore, FInt(50)) THEN "High"
                      ELSE IF FLt(inputs.mobilePerformanceScore, FInt(70)) THEN "Moderate"
                      ELSE "Low"]

\* a faulty variant: the recovery potential is half of the loss
revenueResultHalf(inputs, minLoss, maxLoss, confidence, industry) ==
    [minMonthlyLoss       |-> MathRoundNum(minLoss),
     maxMonthlyLoss       |-> MathRoundNum(maxLoss),
     minAnnualLoss        |-> MathRoundNum(Times(minLoss, FInt(12))),
     maxAnnualLoss        |-> MathRoundNum(Times(maxLoss, FInt(12))),
     recoveryPotentialMin |-> MathRoundNum(Times(minLoss, Lit_0_5)),
     recoveryPotentialMax |-> MathRoundNum(Times(maxLoss, Lit_0_5)),
     confidenceScore      |-> confidence,
     confidenceLabel      |-> confidenceLabelOf(confidence),
     industryUsed         |-> industry,
     riskDrivers          |-> riskDriversOf(inputs)]

\* the returned object; minLoss and maxLoss are adjustedMinLoss and
\* adjustedMaxLoss
revenueResult(inputs, minLoss, maxLoss, confidence, industry) ==
    [minMonthlyLoss       |-> MathRoundNum(minLoss),
     maxMonthlyLoss       |-> MathRoundNum(maxLoss),
     minAnnualLoss        |-> MathRoundNum(Times(minLoss, FInt(12))),
     maxAnnualLoss        |-> MathRoundNum(Times(maxLoss, FInt(12))),
     recoveryPotentialMin |-> MathRoundNum(minLoss),
     recoveryPotentialMax |-> MathRoundNum(maxLoss),
     confidenceScore      |-> confidence,
     confidenceLabel      |-> confidenceLabelOf(confidence),
     industryUsed         |-> industry,
     riskDrivers          |-> riskDriversOf(inputs)]

revenueFromDrops(inputs, drops, monthlyRevenue, mobileWeight, confidence, industry) ==
    revenueResult(inputs,
                  adjustedLoss(monthlyRevenue, drops[1], mobileWeight),
                  adjustedLoss(monthlyRevenue, drops[2], mobileWeight),
                  confidence, industry)

computeRevenueImpact(inputs, monthlyRevenue, mobileTrafficPercent, industry) ==
    revenueFromDrops(inputs,
                     scaleDrops(capDrops(sumDrops(inputs)), industryMultiplier(industry)),
                     monthlyRevenue,
                     mobileWeightOf(mobileTrafficPercent),
                     capConfidence(confidenceOf(inputs, mobileTrafficPercent)),
                     industry)

----------------------------------------------------------------------------
(* The exported functions are pure.  A behaviour draws one input and       *)
(* applies one function to it.                                             *)

\* Metric values are drawn relative to the metric's thresholds: far below,
\* at the low threshold, just above it, 1%, 50%, 90% and 99% into the range,
\* just below the high threshold, at it, and far above.
Extreme == 100000
Delta   == 1

Thresholds ==
    [lcp |-> <<2500, 5000>>, cls |-> <<100, 250>>, inp |-> <<200, 500>>,
     tbt |-> <<300, 600>>, fcp |-> <<1800, 3000>>, speedIndex |-> <<3000, 6000>>,
     domSize |-> <<1500, 3000>>, mainThreadWork |-> <<3000, 6000>>]

Levels ==
    {"zero", "low", "aboveLow", "onePercent", "mid", "ninety", "ninetyNine",
     "belowHigh", "high", "extreme"}

LevelAt(low, high, level) ==
    CASE level = "zero"       -> 0
      [] level = "low"        -> low
      [] level = "aboveLow"   -> low + Delta
      [] level = "onePercent" -> low + (high - low + 99) \div 100
      [] level = "mid"        -> low + (high - low) \div 2
      [] level = "ninety"     -> low + (9 * (high - low)) \div 10
      [] level = "ninetyNine" -> high - (high - low + 99) \div 100
      [] level = "belowHigh"  -> high - Delta
      [] level = "high"       -> high
      [] level = "extreme"    -> Extreme

LevelValue(metric, level) == LevelAt(Thresholds[metric][1], Thresholds[metric][2], level)

Opposite(level) ==
    CASE level = "zero"       -> "high"
      [] level = "high"       -> "zero"
      [] level = "low"        -> "extreme"
      [] level = "extreme"    -> "low"
      [] level = "aboveLow"   -> "belowHigh"
      [] level = "belowHigh"  -> "aboveLow"
      [] level = "onePercent" -> "ninetyNine"
      [] level = "ninetyNine" -> "onePercent"
      [] level = "mid"        -> "ninety"
      [] level = "ninety"     -> "mid"

\* Every category reads one metric of each of the groups {lcp, cls, domSize},
\* {tbt, fcp} and {speedIndex, inp, mainThreadWork}; a, b and c are the levels
\* of lcp, tbt and speedIndex, and the other metrics of a group sit at the
\* same level or, when flip holds, at the opposite one.
MetricSet(a, b, c, flip) ==
    LET o(level) == IF flip THEN Opposite(level) ELSE level
    IN  [lcp            |-> LevelValue("lcp", a),
         cls            |-> LevelValue("cls", o(a)),
         inp            |-> LevelValue("inp", o(c)),
         tbt            |-> LevelValue("tbt", b),
         fcp            |-> LevelValue("fcp", o(b)),
         speedIndex     |-> LevelValue("speedIndex", c),
         domSize        |-> LevelValue("domSize", o(a)),
         mainThreadWork |-> LevelValue("mainThreadWork", o(c))]

MetricInputs ==
    { [kind |-> "metrics", metrics |-> MetricSet(a, b, c, flip)] :
        a \in Levels, b \in Levels, c \in Levels, flip \in BOOLEAN }

Categories == {"speedRisk", "uxRisk", "seoRisk", "conversionRisk", "scalingRisk"}

\* risk scores: a coarse family over the whole range and one around the cut
\* points of the labels
RiskValues    == {0, 44, 66, 100}
RiskCutValues == {39, 40, 69, 70}

RiskInputs ==
    { [kind |-> "risks", scores |-> r] :
        r \in [Categories -> RiskValues] \cup [Categories -> RiskCutValues] }

\* the five risk scores as numbers
NumScores(r) == [c \in Categories |-> FInt(r[c])]

\* scores handed to getRiskLevel: every multiple of one half from ScoreMargin
\* below 0 to ScoreMargin above 100, written in halves
ScoreMargin == 20

ScoreInputs ==
    { [kind |-> "score", halves |-> n] :
        n \in (0 - 2 * ScoreMargin)..(2 * (100 + ScoreMargin)) }

NumScore(halves) == FDec(halves, 2)

\* input, pc and result describe the call of a pure function; now is the
\* clock (Date.now()), store the map of src/lib/rateLimit.ts and cache the map
\* of src/lib/cache.ts, both from a key to an entry; passed and written
\* record, for the properties, the times of the calls of rateLimit that
\* returned true and the last setCache of every key; handlers holds the
\* requests of the analyze route that have arrived, each with its position,
\* its local values, the effects it has had and its response.
VARIABLES input, pc, result, now, store, cache, passed, written, handlers

vars == <<input, pc, result, now, store, cache, passed, written, handlers>>

server == <<now, store, cache, passed, written, handlers>>

NoResult == [op |-> "none"]

\* the keys handed to rateLimit (client addresses) and to the cache
Clients   == {"10.0.0.1", "unknown"}
CacheKeys == {"https://a.example", "https://b.example"}

\* a map holds << >> for a key without an entry and <<entry>> for one with
NoEntry == << >>

\* the module state of a process that has just started
InitServer ==
    /\ now = 0
    /\ store = [key \in Clients |-> NoEntry]
    /\ cache = [key \in CacheKeys |-> NoEntry]
    /\ passed = [key \in Clients |-> << >>]
    /\ written = [key \in CacheKeys |-> NoEntry]
    /\ handlers = << >>

Init ==
    /\ input \in MetricInputs \cup RiskInputs \cup ScoreInputs
    /\ pc = "start"
    /\ result = NoResult
    /\ InitServer

\* a result holds the function applied and what it returned: a number
\* (value), a label, or the entries of a list
Return(r) ==
    /\ result' = r
    /\ pc' = "done"
    /\ UNCHANGED <<input, server>>

CalculateSpeedRisk ==
    /\ pc = "start" /\ input.kind = "metrics"
    /\ Return([op |-> "calculateSpeedRisk",
               value |-> calculateSpeedRisk(Num(input.metrics))])

CalculateUxRisk ==
    /\ pc = "start" /\ input.kind = "metrics"
    /\ Return([op |-> "calculateUxRisk",
               value |-> calculateUxRisk(Num(input.metrics))])

CalculateSeoRisk ==
    /\ pc = "start" /\ input.kind = "metrics"
    /\ Return([op |-> "calculateSeoRisk",
               value |-> calculateSeoRisk(Num(input.metrics))])

CalculateConversionRisk ==
    /\ pc = "start" /\ input.kind = "metrics"
    /\ Return([op |-> "calculateConversionRisk",
               value |-> calculateConversionRisk(Num(input.metrics))])

CalculateScalingRisk ==
    /\ pc = "start" /\ input.kind = "metrics"
    /\ Return([op |-> "calculateScalingRisk",
               value |-> calculateScalingRisk(Num(input.metrics))])

healthOf(s) ==
    calculateOverallHealth(s.speedRisk, s.uxRisk, s.seoRisk, s.conversionRisk,
                           s.scalingRisk)

CalculateOverallHealth ==
    /\ pc = "start" /\ input.kind = "risks"
    /\ Return([op |-> "calculateOverallHealth",
               value |-> healthOf(NumScores(input.scores))])

GetRiskLevel ==
    /\ pc = "start" /\ input.kind = "score"
    /\ Return([op |-> "getRiskLevel", label |-> getRiskLevel(NumScore(input.halves))])

GenerateFixPriorities ==
    /\ pc = "start" /\ input.kind = "risks"
    /\ Return([op |-> "generateFixPriorities",
               entries |-> generateFixPriorities(NumScores(input.scores))])

EstimateBusinessImpact ==
    /\ pc = "start" /\ input.kind = "score"
    /\ Return([op |-> "estimateBusinessImpact",
               impact |-> estimateBusinessImpact(NumScore(input.halves))])

\* a faulty variant: the risk level is taken from the health itself
summaryOfHealth(scores) ==
    [overall_health_score |-> scores.overallHealth,
     risk_level           |-> getRiskLevel(scores.overallHealth),
     business_impact      |-> estimateBusinessImpact(scores.overallHealth)]

\* the summary of the response of the analyze route, but for the text
summaryOf(scores) ==
    [overall_health_score |-> scores.overallHealth,
     risk_level           |-> getRiskLevel(FSub(Hundred, scores.overallHealth)),
     business_impact      |-> estimateBusinessImpact(scores.overallHealth)]

AnalysisSummary ==
    /\ pc = "start" /\ input.kind = "metrics"
    /\ Return([op |-> "summary", summary |-> summaryOf(computeAllScores(Num(input.metrics)))])

Next ==
    \/ CalculateSpeedRisk
    \/ CalculateUxRisk
    \/ CalculateSeoRisk
    \/ CalculateConversionRisk
    \/ CalculateScalingRisk
    \/ CalculateOverallHealth
    \/ GetRiskLevel
    \/ GenerateFixPriorities
    \/ EstimateBusinessImpact
    \/ AnalysisSummary

Spec == Init /\ [][Next]_vars

----------------------------------------------------------------------------
(* linearRisk on its own: the calls the risk functions make, with the      *)
(* thresholds of a metric and every value from LinearMargin below the low  *)
(* threshold to LinearMargin above the high one.                           *)

LinearMargin == 2

LinearMetrics == {"cls", "inp", "tbt", "fcp"}

LinearInputs ==
    UNION { { [kind |-> "linear", metric |-> metric, value |-> value] :
                value \in (Thresholds[metric][1] - LinearMargin)
                              ..(Thresholds[metric][2] + LinearMargin) } :
            metric \in LinearMetrics }

\* a metric value and a threshold as numbers; cls is written in thousandths
NumMetric(metric, n) == IF metric = "cls" THEN FDec(n, 1000) ELSE FInt(n)

linearRiskOf(metric, value) ==
    linearRisk(NumMetric(metric, value), NumMetric(metric, Thresholds[metric][1]),
               NumMetric(metric, Thresholds[metric][2]))

InitLinear ==
    /\ input \in LinearInputs
    /\ pc = "start"
    /\ result = NoResult
    /\ InitServer

LinearRisk ==
    /\ pc = "start" /\ input.kind = "linear"
    /\ Return([op |-> "linearRisk", value |-> linearRiskOf(input.metric, input.value)])

NextLinear == LinearRisk

SpecLinear == InitLinear /\ [][NextLinear]_vars

----------------------------------------------------------------------------
(* computeRevenueImpact is pure as well; its behaviours draw the arguments *)
(* of one call.                                                            *)

\* lcpSeconds in tenths of a second, cls in thousandths, monthlyRevenue in
\* tenths of a currency unit; inpMs is << >> for null
LcpTenths      == {25, 30, 40, 41}
ClsThousandths == {100, 250, 251}
InpValues      == {<< >>, <<500>>, <<501>>}
MobileScores   == {39, 40, 50, 70}
RevenueTenths  == {7, 1000}
MobileShares   == {-10, 0, 50, 100, 150}
ShareCuts      == {-10, 29, 30, 59, 60, 150}
Industries     ==
    {"ecommerce", "finance", "saas", "healthcare", "general", "retail", "constructor"}

\* the calls that vary what the losses depend on
LossInputs ==
    { [kind |-> "revenue",
       inputs |-> [lcpSeconds |-> l, cls |-> c, inpMs |-> i, mobilePerformanceScore |-> m,
                   fieldDataAvailable |-> TRUE, poorCWVCount |-> 1],
       monthlyRevenue |-> r, mobileTrafficPercent |-> t, industry |-> k] :
        l \in LcpTenths, c \in ClsThousandths, i \in InpValues, m \in MobileScores,
        r \in RevenueTenths, t \in MobileShares, k \in Industries }

\* the calls that vary what the confidence depends on
ConfidenceInputs ==
    { [kind |-> "revenue",
       inputs |-> [lcpSeconds |-> l, cls |-> 100, inpMs |-> << >>, mobilePerformanceScore |-> m,
                   fieldDataAvailable |-> f, poorCWVCount |-> p],
       monthlyRevenue |-> 1000, mobileTrafficPercent |-> t, industry |-> "general"] :
        l \in {40, 41}, m \in {39, 40}, f \in BOOLEAN, p \in 0..3, t \in ShareCuts }

RevenueInputs == LossInputs \cup ConfidenceInputs

\* the arguments as numbers
NumInputs(i) ==
    [lcpSeconds             |-> FDec(i.lcpSeconds, 10),
     cls                    |-> FDec(i.cls, 1000),
     inpMs                  |-> IF i.inpMs = << >> THEN << >> ELSE <<FInt(i.inpMs[1])>>,
     mobilePerformanceScore |-> FInt(i.mobilePerformanceScore),
     fieldDataAvailable     |-> i.fieldDataAvailable,
     poorCWVCount           |-> i.poorCWVCount]

NumRevenue(tenths) == FDec(tenths, 10)

revenueImpactOf(call) ==
    computeRevenueImpact(NumInputs(call.inputs), NumRevenue(call.monthlyRevenue),
                         FInt(call.mobileTrafficPercent), call.industry)

InitRevenue ==
    /\ input \in RevenueInputs
    /\ pc = "start"
    /\ result = NoResult
    /\ InitServer

ComputeRevenueImpact ==
    /\ pc = "start" /\ input.kind = "revenue"
    /\ Return([op |-> "computeRevenueImpact", revenue |-> revenueImpactOf(input)])

NextRevenue == ComputeRevenueImpact

SpecRevenue == InitRevenue /\ [][NextRevenue]_vars

----------------------------------------------------------------------------
(* src/lib/rateLimit.ts.  The clock advances between calls by one of a few *)
(* steps, at most MaxTicks times; at most MaxCalls calls are made.         *)

LIMIT     == 10
WINDOW_MS == 60 * 1000

MaxTicks == 2
MaxCalls == 13

ClockSteps == {1, WINDOW_MS - 1, WINDOW_MS}

\* the times of seq later than since
Later(seq, since) == SelectSeq(seq, LAMBDA t : t > since)

\* the number of clock steps and of calls so far, kept in input
Ticked == input.ticks

Called == input.calls

InitCalls ==
    /\ input = [kind |-> "calls", ticks |-> 0, calls |-> 0]
    /\ pc = "start"
    /\ result = NoResult
    /\ InitServer

\* a faulty variant: a rejected call starts the window anew
rateLimitExtend(entries, key, at) ==
    IF entries[key] = NoEntry
    THEN [store |-> [entries EXCEPT ![key] = <<[count |-> 1, resetTime |-> at + WINDOW_MS]>>],
          allowed |-> TRUE]
    ELSE IF at >= entries[key][1].resetTime
    THEN [store |-> [entries EXCEPT ![key] = <<[count |-> 1, resetTime |-> at + WINDOW_MS]>>],
          allowed |-> TRUE]
    ELSE IF entries[key][1].count + 1 > LIMIT
    THEN [store |-> [entries EXCEPT
                        ![key] = <<[count |-> @[1].count + 1, resetTime |-> at + WINDOW_MS]>>],
          allowed |-> FALSE]
    ELSE [store |-> [entries EXCEPT ![key] = <<[@[1] EXCEPT !.count = @ + 1]>>],
          allowed |-> TRUE]

\* rateLimit(key) at the time at: the store it leaves and what it returns
rateLimit(entries, key, at) ==
    IF entries[key] = NoEntry
    THEN [store |-> [entries EXCEPT ![key] = <<[count |-> 1, resetTime |-> at + WINDOW_MS]>>],
          allowed |-> TRUE]
    ELSE IF at >= entries[key][1].resetTime
    THEN [store |-> [entries EXCEPT ![key] = <<[count |-> 1, resetTime |-> at + WINDOW_MS]>>],
          allowed |-> TRUE]
    ELSE [store |-> [entries EXCEPT ![key] = <<[@[1] EXCEPT !.count = @ + 1]>>],
          allowed |-> ~(entries[key][1].count + 1 > LIMIT)]

\* passed keeps the times within the last WINDOW_MS of the calls that
\* returned true
Remember(key, allowed) ==
    passed' = [passed EXCEPT
                 ![key] = Later(IF allowed THEN Append(@, now) ELSE @, now - WINDOW_MS)]

RateLimit(key) ==
    /\ input.kind = "calls" /\ Called < MaxCalls
    /\ store' = rateLimit(store, key, now).store
    /\ result' = [op |-> "rateLimit", key |-> key, at |-> now,
                  allowed |-> rateLimit(store, key, now).allowed]
    /\ Remember(key, rateLimit(store, key, now).allowed)
    /\ input' = [input EXCEPT !.calls = @ + 1]
    /\ UNCHANGED <<pc, now, cache, written, handlers>>

\* Date.now() is non-decreasing
Tick(step) ==
    /\ input.kind \in {"calls", "cache", "requests"} /\ Ticked < MaxTicks
    /\ now' = now + step
    /\ input' = [input EXCEPT !.ticks = @ + 1]
    /\ UNCHANGED <<pc, result, store, cache, passed, written, handlers>>

NextCalls ==
    \/ \E key \in Clients : RateLimit(key)
    \/ \E step \in ClockSteps : Tick(step)

SpecRateLimit == InitCalls /\ [][NextCalls]_vars

----------------------------------------------------------------------------
(* src/lib/cache.ts.  At most MaxCacheCalls calls of getCache and setCache *)
(* are made, the clock advancing in between.                               *)

DEFAULT_TTL_MS == 10 * 60 * 1000

MaxCacheCalls == 4

CacheData == {"first", "second"}

\* the argument ttlMs: << >> when omitted, else <<ttl>>; one hour is the
\* TTL route.ts gives to its AI analysis
TtlArgs == {<< >>, <<1>>, <<60 * 60 * 1000>>}

CacheSteps == {1, DEFAULT_TTL_MS - 1, DEFAULT_TTL_MS}

InitCache ==
    /\ input = [kind |-> "cache", ticks |-> 0, calls |-> 0]
    /\ pc = "start"
    /\ result = NoResult
    /\ InitServer

\* a faulty variant: an entry is expired at expiresAt already
getCacheEarly(entries, key, at) ==
    IF entries[key] = NoEntry THEN [cache |-> entries, found |-> << >>]
    ELSE IF at >= entries[key][1].expiresAt
    THEN [cache |-> [entries EXCEPT ![key] = NoEntry], found |-> << >>]
    ELSE [cache |-> entries, found |-> <<entries[key][1].data>>]

\* getCache(key) at the time at: the map it leaves and what it returns,
\* << >> for undefined and <<data>> for data
getCache(entries, key, at) ==
    IF entries[key] = NoEntry THEN [cache |-> entries, found |-> << >>]
    ELSE IF at > entries[key][1].expiresAt
    THEN [cache |-> [entries EXCEPT ![key] = NoEntry], found |-> << >>]
    ELSE [cache |-> entries, found |-> <<entries[key][1].data>>]

\* ttlMs ?? DEFAULT_TTL_MS
ttlOf(ttlMs) == IF ttlMs = << >> THEN DEFAULT_TTL_MS ELSE ttlMs[1]

\* setCache(key, data, ttlMs) at the time at: the map it leaves
setCache(entries, key, data, ttlMs, at) ==
    [entries EXCEPT ![key] = <<[data |-> data, expiresAt |-> at + ttlOf(ttlMs)]>>]

GetCache(key) ==
    /\ input.kind = "cache" /\ Called < MaxCacheCalls
    /\ cache' = getCache(cache, key, now).cache
    /\ result' = [op |-> "getCache", key |-> key, at |-> now,
                  found |-> getCache(cache, key, now).found]
    /\ input' = [input EXCEPT !.calls = @ + 1]
    /\ UNCHANGED <<pc, now, store, passed, written, handlers>>

\* written keeps the arguments and the time of the last setCache of a key
SetCache(key, data, ttlMs) ==
    /\ input.kind = "cache" /\ Called < MaxCacheCalls
    /\ cache' = setCache(cache, key, data, ttlMs, now)
    /\ result' = [op |-> "setCache", key |-> key, at |-> now, data |-> data,
                  ttlMs |-> ttlMs]
    /\ written' = [written EXCEPT ![key] = <<[data |-> data, ttlMs |-> ttlMs, at |-> now]>>]
    /\ input' = [input EXCEPT !.calls = @ + 1]
    /\ UNCHANGED <<pc, now, store, passed, handlers>>

NextCache ==
    \/ \E key \in CacheKeys : GetCache(key)
    \/ \E key \in CacheKeys, data \in CacheData, ttlMs \in TtlArgs : SetCache(key, data, ttlMs)
    \/ \E step \in CacheSteps : Tick(step)

SpecCache == InitCache /\ [][NextCache]_vars

----------------------------------------------------------------------------
(* src/app/api/analyze/route.ts: GET.  A handler runs without interruption *)
(* from one await to the next; the handlers of the requests interleave at  *)
(* the awaits.  A behaviour starts after one client was answered 400 for   *)
(* LIMIT - 1 requests without a url: the cache is empty and the window of  *)
(* that client has one request left.                                       *)

MaxRequests == 2
MaxElapses  == 1

AnalyzedUrl == "https://a.example"
MetricKey   == "core-lcp"

\* a faulty variant: the analysis of a metric is kept under the url
urlAsKey(url, metricKey) == url

\* `ai:${url}:${metricKey}`
aiCacheKey(url, metricKey) == "ai:" \o url \o ":" \o metricKey

\* the url parameters of the requests: a page, and a string that reads like
\* the key of an AI analysis
RequestUrls == {AnalyzedUrl, aiCacheKey(AnalyzedUrl, MetricKey)}

HandlerKeys == RequestUrls \cup {aiCacheKey(url, MetricKey) : url \in RequestUrls}

\* revenue (in tenths), mobileShare and industry as the handler parses them
BusinessParams == {<<0, 100, "general">>, <<1000, 50, "finance">>}

\* the query of a request; url is << >> when the parameter is missing
Queries ==
    { [ip |-> ip, url |-> url, revenue |-> b[1], mobileShare |-> b[2], industry |-> b[3]] :
        ip \in Clients, url \in {<< >>} \cup {<<u>> : u \in RequestUrls},
        b \in BusinessParams }

\* what comes back from PageSpeed: a failure status, a body without audits,
\* a body that makes the handler throw, or audits with every metric Good or
\* with one that is Poor
PageSpeedOutcomes == {"notOk", "noAudits", "throws", "good", "poor"}

\* what comes back from the completion asked for a metric: content, no
\* content, an exception, or content followed by an exception in a later row
AiOutcomes == {"content", "empty", "throws", "contentThenThrows"}

\* the clock advances past the life of a cached response and of a window
HandlerSteps == {DEFAULT_TTL_MS + 1}

revenueImpactInputsOf(page) ==
    IF page = "poor"
    THEN [lcpSeconds |-> 41, cls |-> 251, inpMs |-> <<501>>, mobilePerformanceScore |-> 39,
          fieldDataAvailable |-> TRUE, poorCWVCount |-> 3]
    ELSE [lcpSeconds |-> 25, cls |-> 100, inpMs |-> << >>, mobilePerformanceScore |-> 70,
          fieldDataAvailable |-> TRUE, poorCWVCount |-> 0]

Effect(kind, key) == [kind |-> kind, key |-> key]

\* response.revenueImpact = computeRevenueImpact(inputs, revenue, mobileShare, industry)
withRevenueImpact(response, inputs, query) ==
    [field \in DOMAIN response \cup {"revenueImpact"} |->
        IF field = "revenueImpact"
        THEN computeRevenueImpact(NumInputs(inputs), NumRevenue(query.revenue),
                                  FInt(query.mobileShare), query.industry)
        ELSE response[field]]

\* a faulty variant: the revenue impact is written into the cached object
serveHitShared(cached, query) ==
    IF query.revenue > 0 /\ "revenueImpactInputs" \in DOMAIN cached
    THEN [response |-> withRevenueImpact(cached, cached.revenueImpactInputs, query),
          cached   |-> withRevenueImpact(cached, cached.revenueImpactInputs, query)]
    ELSE [response |-> cached, cached |-> cached]

\* a cache hit: the response, made from a copy of the cached object, and the
\* cached object as the handler leaves it
serveHit(cached, query) ==
    IF query.revenue > 0 /\ "revenueImpactInputs" \in DOMAIN cached
    THEN [response |-> withRevenueImpact(cached, cached.revenueImpactInputs, query),
          cached   |-> cached]
    ELSE [response |-> cached, cached |-> cached]

\* the analysis of a Poor metric that is parsed from the completion, and the
\* one made up when there is no API key or the completion fails
ParsedAnalysis == [rootCause |-> "cause", fixes |-> <<"fix">>, impact |-> "High", difficulty |-> "Low"]

FallbackAnalysis == [rootCause |-> "description", fixes |-> << >>, impact |-> "", difficulty |-> ""]

\* the response object of an analysis, but for the scores and the summary
analysisResponse(page, aiAnalysis) ==
    [metrics_for_dashboard |-> [metricKey |-> MetricKey,
                                verdict |-> IF page = "poor" THEN "Poor" ELSE "Good",
                                aiAnalysis |-> aiAnalysis],
     revenueImpactInputs   |-> revenueImpactInputsOf(page)]

\* toCache: a copy of the response without revenueImpact
toCacheOf(response) == [field \in DOMAIN response \ {"revenueImpact"} |-> response[field]]

Answer(status, body) == <<[status |-> status, body |-> body]>>

ErrorBody(message) == [error |-> message]

\* a handler: where it is, its query, what it did so far, what PageSpeed
\* returned, the analysis of the Poor metric and the response, the last
\* three << >> as long as there is none
Handler(query, position, effects, page, aiAnalysis, response) ==
    [pc |-> position, query |-> query, effects |-> effects, page |-> page,
     aiAnalysis |-> aiAnalysis, response |-> response]

Answered(handler, effects, status, body) ==
    Handler(handler.query, "done", handler.effects \o effects, handler.page,
            handler.aiAnalysis, Answer(status, body))

Arrived(query) == Handler(query, "arrived", << >>, << >>, << >>, << >>)

\* lines 162-203 for a request that passes the rate limit and names a url:
\* the cache is read; a hit is answered, a miss fetches PageSpeed
readCacheAndGo(handler, url, read) ==
    IF read.found # << >>
    THEN [cache   |-> IF read.cache[url] = NoEntry THEN read.cache
                      ELSE [read.cache EXCEPT ![url] =
                               <<[@[1] EXCEPT !.data = serveHit(read.found[1], handler.query).cached]>>],
          handler |-> Answered(handler, <<Effect("getCache", url)>>, 200,
                               serveHit(read.found[1], handler.query).response)]
    ELSE [cache   |-> read.cache,
          handler |-> Handler(handler.query, "awaitPageSpeed",
                              handler.effects \o <<Effect("getCache", url), Effect("fetch", url)>>,
                              << >>, << >>, << >>)]

\* a faulty variant: the url is looked at before the rate limit
startOfUrlFirst(query, limited) ==
    IF query.url = << >>
    THEN [store   |-> store,
          cache   |-> cache,
          handler |-> Answered(Arrived(query), << >>, 400, ErrorBody("URL is required"))]
    ELSE IF ~limited.allowed
    THEN [store   |-> limited.store,
          cache   |-> cache,
          handler |-> Answered(Arrived(query), <<Effect("rateLimit", query.ip)>>, 429,
                               ErrorBody("Too many requests."))]
    ELSE [store   |-> limited.store,
          cache   |-> readCacheAndGo(Handler(query, "arrived", <<Effect("rateLimit", query.ip)>>,
                                             << >>, << >>, << >>),
                                     query.url[1], getCache(cache, query.url[1], now)).cache,
          handler |-> readCacheAndGo(Handler(query, "arrived", <<Effect("rateLimit", query.ip)>>,
                                             << >>, << >>, << >>),
                                     query.url[1], getCache(cache, query.url[1], now)).handler]

\* lines 162-203: from the arrival of a request to its first await or answer
startOf(query, limited) ==
    IF ~limited.allowed
    THEN [store   |-> limited.store,
          cache   |-> cache,
          handler |-> Answered(Arrived(query), <<Effect("rateLimit", query.ip)>>, 429,
                               ErrorBody("Too many requests."))]
    ELSE IF query.url = << >>
    THEN [store   |-> limited.store,
          cache   |-> cache,
          handler |-> Answered(Arrived(query), <<Effect("rateLimit", query.ip)>>, 400,
                               ErrorBody("URL is required"))]
    ELSE [store   |-> limited.store,
          cache   |-> readCacheAndGo(Handler(query, "arrived", <<Effect("rateLimit", query.ip)>>,
                                             << >>, << >>, << >>),
                                     query.url[1], getCache(cache, query.url[1], now)).cache,
          handler |-> readCacheAndGo(Handler(query, "arrived", <<Effect("rateLimit", query.ip)>>,
                                             << >>, << >>, << >>),
                                     query.url[1], getCache(cache, query.url[1], now)).handler]

Receive(query) ==
    /\ input.kind = "requests" /\ Len(handlers) < MaxRequests
    /\ store' = startOf(query, rateLimit(store, query.ip, now)).store
    /\ Remember(query.ip, rateLimit(store, query.ip, now).allowed)
    /\ cache' = startOf(query, rateLimit(store, query.ip, now)).cache
    /\ handlers' = Append(handlers, startOf(query, rateLimit(store, query.ip, now)).handler)
    /\ UNCHANGED <<input, pc, result, now, written>>

\* lines 473-516: the handler goes on to ask for the executive summary
askSummary(handler, effects, page, aiAnalysis) ==
    Handler(handler.query, "awaitSummary",
            handler.effects \o effects \o <<Effect("openai", "summary")>>,
            page, aiAnalysis, << >>)

\* lines 364-416 for a metric that is not Good: the cached analysis is used,
\* else a completion is asked for when there is an API key
analyseMetric(handler, page, aiKey, read) ==
    IF read.found # << >>
    THEN askSummary(handler, <<Effect("getCache", aiKey)>>, page, read.found)
    ELSE IF input.openAiKey
    THEN Handler(handler.query, "awaitAiAnalysis",
                 handler.effects \o <<Effect("getCache", aiKey), Effect("openai", aiKey)>>,
                 page, << >>, << >>)
    ELSE askSummary(handler, <<Effect("getCache", aiKey)>>, page, <<FallbackAnalysis>>)

\* lines 205-471 and 562-568: PageSpeed has answered
pageSpeedReturned(handler, page) ==
    CASE page = "notOk"    -> Answered(handler, << >>, 500, ErrorBody("Failed to fetch PageSpeed data"))
      [] page = "noAudits" -> Answered(handler, << >>, 500,
                                       ErrorBody("Invalid Lighthouse response structure"))
      [] page = "throws"   -> Answered(handler, << >>, 500, ErrorBody("Server error"))
      [] page = "good"     -> askSummary(handler, << >>, <<page>>, << >>)
      [] page = "poor"     ->
            analyseMetric(handler, <<page>>, aiCacheKey(handler.query.url[1], MetricKey),
                          getCache(cache, aiCacheKey(handler.query.url[1], MetricKey), now))

PageSpeedReturns(r, page) ==
    /\ input.kind = "requests" /\ r \in DOMAIN handlers
    /\ handlers[r].pc = "awaitPageSpeed"
    /\ handlers' = [handlers EXCEPT ![r] = pageSpeedReturned(@, page)]
    /\ cache' = IF page = "poor"
                THEN getCache(cache, aiCacheKey(handlers[r].query.url[1], MetricKey), now).cache
                ELSE cache
    /\ UNCHANGED <<input, pc, result, now, store, passed, written>>

\* lines 387-405 and 562-568: the completion for the metric has answered
aiAnalysisReturned(handler, outcome, aiKey) ==
    CASE outcome = "content" ->
            askSummary(handler, <<Effect("setCache", aiKey)>>, handler.page, <<ParsedAnalysis>>)
      [] outcome = "empty"   -> askSummary(handler, << >>, handler.page, << >>)
      [] outcome = "throws"  -> askSummary(handler, << >>, handler.page, <<FallbackAnalysis>>)
      [] outcome = "contentThenThrows" ->
            Answered(handler, <<Effect("setCache", aiKey)>>, 500, ErrorBody("Server error"))

AiAnalysisReturns(r, outcome) ==
    /\ input.kind = "requests" /\ r \in DOMAIN handlers
    /\ handlers[r].pc = "awaitAiAnalysis"
    /\ handlers' = [handlers EXCEPT
                      ![r] = aiAnalysisReturned(@, outcome, aiCacheKey(@.query.url[1], MetricKey))]
    /\ cache' = IF outcome \in {"content", "contentThenThrows"}
                THEN setCache(cache, aiCacheKey(handlers[r].query.url[1], MetricKey),
                              ParsedAnalysis, <<60 * 60 * 1000>>, now)
                ELSE cache
    /\ UNCHANGED <<input, pc, result, now, store, passed, written>>

\* lines 478-560: the completion for the summary has answered or failed, and
\* the summary is its text or the fallback text; the response is built, a
\* copy is cached under the url and the revenue impact of this request is
\* added
finish(handler, response) ==
    Answered(handler, <<Effect("setCache", handler.query.url[1])>>, 200,
             IF handler.query.revenue > 0
             THEN withRevenueImpact(response, response.revenueImpactInputs, handler.query)
             ELSE response)

SummaryReturns(r) ==
    /\ input.kind = "requests" /\ r \in DOMAIN handlers
    /\ handlers[r].pc = "awaitSummary"
    /\ handlers' = [handlers EXCEPT
                      ![r] = finish(@, analysisResponse(@.page[1], @.aiAnalysis))]
    /\ cache' = setCache(cache, handlers[r].query.url[1],
                         toCacheOf(analysisResponse(handlers[r].page[1], handlers[r].aiAnalysis)),
                         << >>, now)
    /\ UNCHANGED <<input, pc, result, now, store, passed, written>>

\* the window of a client after LIMIT - 1 requests at time 0
NearlyUsedUp == <<[count |-> LIMIT - 1, resetTime |-> WINDOW_MS]>>

InitRequests ==
    /\ input \in {[kind |-> "requests", ticks |-> 0, openAiKey |-> key] : key \in BOOLEAN}
    /\ pc = "start"
    /\ result = NoResult
    /\ now = 0
    /\ store = [key \in Clients |-> IF key = "10.0.0.1" THEN NearlyUsedUp ELSE NoEntry]
    /\ passed = [key \in Clients |->
                   IF key = "10.0.0.1" THEN [i \in 1..(LIMIT - 1) |-> 0] ELSE << >>]
    /\ cache = [key \in HandlerKeys |-> NoEntry]
    /\ written = [key \in HandlerKeys |-> NoEntry]
    /\ handlers = << >>

\* the clock advances, MaxElapses times at most
Elapse(step) == Ticked < MaxElapses /\ Tick(step)

NextRequests ==
    \/ \E query \in Queries : Receive(query)
    \/ \E r \in 1..MaxRequests, page \in PageSpeedOutcomes : PageSpeedReturns(r, page)
    \/ \E r \in 1..MaxRequests, outcome \in AiOutcomes : AiAnalysisReturns(r, outcome)
    \/ \E r \in 1..MaxRequests : SummaryReturns(r)
    \/ \E step \in HandlerSteps : Elapse(step)

SpecRequests == InitRequests /\ [][NextRequests]_vars

----------------------------------------------------------------------------
(* Properties of the engine.  Reference values are computed in exact       *)
(* integer arithmetic from the tables of the specification.                *)

Done(op) == pc = "done" /\ result.op = op

IsInteger(x) == x.e >= 0 \/ NLowZero(x.m, 0 - x.e)

\* the integer a number holds
AsInt(x) == MathRound(x)

Equals(x, n) == FCmp(x, FInt(n)) = 0

RiskOps ==
    {"calculateSpeedRisk", "calculateUxRisk", "calculateSeoRisk",
     "calculateConversionRisk", "calculateScalingRisk"}

\* the specification's table of sub-metrics: thresholds in the units of the
\* input (cls in thousandths), weights in percent
SpecTable ==
    [calculateSpeedRisk |->
        << [metric |-> "lcp", low |-> 2500, high |-> 5000, weight |-> 40],
           [metric |-> "tbt", low |-> 300, high |-> 600, weight |-> 35],
           [metric |-> "speedIndex", low |-> 3000, high |-> 6000, weight |-> 25] >>,
     calculateUxRisk |->
        << [metric |-> "cls", low |-> 100, high |-> 250, weight |-> 40],
           [metric |-> "inp", low |-> 200, high |-> 500, weight |-> 35],
           [metric |-> "tbt", low |-> 300, high |-> 600, weight |-> 25] >>,
     calculateSeoRisk |->
        << [metric |-> "lcp", low |-> 2500, high |-> 5000, weight |-> 50],
           [metric |-> "fcp", low |-> 1800, high |-> 3000, weight |-> 25],
           [metric |-> "speedIndex", low |-> 3000, high |-> 6000, weight |-> 25] >>,
     calculateConversionRisk |->
        << [metric |-> "lcp", low |-> 2500, high |-> 5000, weight |-> 35],
           [metric |-> "inp", low |-> 200, high |-> 500, weight |-> 35],
           [metric |-> "tbt", low |-> 300, high |-> 600, weight |-> 30] >>,
     calculateScalingRisk |->
        << [metric |-> "domSize", low |-> 1500, high |-> 3000, weight |-> 35],
           [metric |-> "mainThreadWork", low |-> 3000, high |-> 6000, weight |-> 35],
           [metric |-> "tbt", low |-> 300, high |-> 600, weight |-> 30] >>]

\* the value the input gives the i-th sub-metric of a category
Given(op, i) == input.metrics[SpecTable[op][i].metric]

AllAtMostLow(op) == \A i \in 1..3 : Given(op, i) <= SpecTable[op][i].low

AllAtLeastHigh(op) == \A i \in 1..3 : Given(op, i) >= SpecTable[op][i].high

StrictlyBetween(op) ==
    \A i \in 1..3 : SpecTable[op][i].low < Given(op, i) /\ Given(op, i) < SpecTable[op][i].high

\* every sub-metric is at least 1% of its range away from both thresholds
WellInside(op) ==
    \A i \in 1..3 :
        /\ 100 * (Given(op, i) - SpecTable[op][i].low)
              >= SpecTable[op][i].high - SpecTable[op][i].low
        /\ 100 * (SpecTable[op][i].high - Given(op, i))
              >= SpecTable[op][i].high - SpecTable[op][i].low

\* C1: each of the five risk functions returns an integer r with
\* 0 <= r <= 100, for every metric set with non-negative fields.
C1_RiskScoreInRange ==
    (pc = "done" /\ result.op \in RiskOps) =>
        IsInteger(result.value) /\ AsInt(result.value) \in 0..100

\* C1: reached with every field far above its high threshold
C1_Witness ==
    /\ Done("calculateConversionRisk")
    /\ \A m \in DOMAIN input.metrics : input.metrics[m] = Extreme
    /\ Equals(result.value, 100)

\* C2: a risk score is 0 when every contributing metric is at or below its
\* low threshold and 100 when every contributing metric is at or above its
\* high threshold, whatever the other metrics are.
C2_ThresholdScores ==
    \A op \in RiskOps :
        Done(op) =>
            /\ AllAtMostLow(op) => Equals(result.value, 0)
            /\ AllAtLeastHigh(op) => Equals(result.value, 100)

\* C2: the SEO score is 0 while metrics the category does not read are at or
\* above their high thresholds
C2_Witness ==
    /\ Done("calculateSeoRisk")
    /\ AllAtMostLow("calculateSeoRisk")
    /\ input.metrics.tbt >= 600 /\ input.metrics.inp >= 500
    /\ Equals(result.value, 0)

\* C3 (amended): when every contributing metric is at least 1% of its
\* threshold range above its low threshold and at least 1% below its high
\* threshold, the score is an integer from 1 to 99.
C3_WellInsideScores ==
    \A op \in RiskOps :
        (Done(op) /\ WellInside(op)) =>
            IsInteger(result.value) /\ AsInt(result.value) \in 1..99

\* C3: the speed score with lcp, tbt and speedIndex exactly 1% into their
\* ranges
C3_Witness ==
    /\ Done("calculateSpeedRisk")
    /\ input.metrics.lcp = 2525 /\ input.metrics.tbt = 303
    /\ input.metrics.speedIndex = 3030
    /\ AsInt(result.value) \in 1..99

\* C3 (as stated): whenever every contributing metric lies strictly between
\* its thresholds, the score is strictly between 0 and 100.
C3_StrictlyBetweenScores ==
    \A op \in RiskOps :
        (Done(op) /\ StrictlyBetween(op)) => AsInt(result.value) \in 1..99

\* a sub-risk in units of 1/30000 of the range (30000 is a common multiple
\* of all threshold ranges)
ExactSubRisk(op, i) ==
    IF Given(op, i) <= SpecTable[op][i].low THEN 0
    ELSE IF Given(op, i) >= SpecTable[op][i].high THEN 30000
    ELSE (Given(op, i) - SpecTable[op][i].low)
             * (30000 \div (SpecTable[op][i].high - SpecTable[op][i].low))

\* sum of subRisk x weight, in units of 1/30000
ExactWeighted(op) ==
    SpecTable[op][1].weight * ExactSubRisk(op, 1)
    + SpecTable[op][2].weight * ExactSubRisk(op, 2)
    + SpecTable[op][3].weight * ExactSubRisk(op, 3)

\* the weighted sum rounded to the nearest integer, halves up
ExactScore(op) == (2 * ExactWeighted(op) + 30000) \div 60000

C4Example ==
    [lcp |-> 5000, cls |-> 0, inp |-> 0, tbt |-> 600, fcp |-> 0,
     speedIndex |-> 6000, domSize |-> 0, mainThreadWork |-> 0]

\* C4: every category score equals the sum of subRisk x weight of the
\* specification's table rounded to the nearest integer (and clamped to
\* 0..100); the example metric set gives speedRisk 100 and uxRisk 25.
C4_WeightedSumScores ==
    /\ \A op \in RiskOps : Done(op) => Equals(result.value, ExactScore(op))
    /\ (Done("calculateSpeedRisk") /\ input.metrics = C4Example)
          => Equals(result.value, 100)
    /\ (Done("calculateUxRisk") /\ input.metrics = C4Example)
          => Equals(result.value, 25)

\* 100 - (0.30 speed + 0.25 ux + 0.15 seo + 0.20 conversion + 0.10 scaling)
\* in twentieths, rounded to the nearest integer, halves up
ExactHealth(s) ==
    (2000 - (6 * s.speedRisk + 5 * s.uxRisk + 3 * s.seoRisk
             + 4 * s.conversionRisk + 2 * s.scalingRisk) + 10) \div 20

\* C5: for integer risks in 0..100 calculateOverallHealth equals
\* 100 - (0.30 speed + 0.25 ux + 0.15 seo + 0.20 conversion + 0.10 scaling)
\* rounded to the nearest integer, halves up, and is an integer in 0..100.
C5_HealthFormula ==
    Done("calculateOverallHealth") =>
        /\ IsInteger(result.value) /\ AsInt(result.value) \in 0..100
        /\ Equals(result.value, ExactHealth(input.scores))

GridValues == RiskValues \cup RiskCutValues

\* the next larger risk value of the grid
NextRisk(v) == CHOOSE w \in GridValues : w > v /\ \A u \in GridValues : u > v => w <= u

Raised(c) == [input.scores EXCEPT ![c] = NextRisk(@)]

\* C6: raising any one of the five risk arguments, the other four fixed,
\* never increases the health score.
C6_HealthMonotone ==
    Done("calculateOverallHealth") =>
        \A c \in Categories :
            input.scores[c] < 100 => FLe(healthOf(NumScores(Raised(c))), result.value)

\* C6: with every risk at 40, raising the speed risk to the next grid value
\* lowers the health
C6_Witness ==
    /\ Done("calculateOverallHealth")
    /\ \A c \in Categories : input.scores[c] = 40
    /\ FLt(healthOf(NumScores(Raised("speedRisk"))), result.value)

\* C7: for every integer score getRiskLevel returns Low when score <= 39,
\* Medium when 40 <= score <= 69 and High when score >= 70; negative scores
\* are Low and scores above 100 are High.
C7_RiskLevelCuts ==
    (Done("getRiskLevel") /\ input.halves % 2 = 0) =>
        /\ input.halves \div 2 <= 39 => result.label = "Low"
        /\ (40 <= input.halves \div 2 /\ input.halves \div 2 <= 69)
              => result.label = "Medium"
        /\ input.halves \div 2 >= 70 => result.label = "High"
        /\ input.halves \div 2 < 0 => result.label = "Low"
        /\ input.halves \div 2 > 100 => result.label = "High"

\* C7: a negative integer score labelled Low
C7_Witness ==
    /\ Done("getRiskLevel")
    /\ input.halves % 2 = 0 /\ input.halves < 0
    /\ result.label = "Low"

\* the fixed category order, the input field of each category and the
\* category weights in percent
FixOrder == <<"speed", "ux", "seo", "conversion", "scaling">>
FixKeys == <<"speedRisk", "uxRisk", "seoRisk", "conversionRisk", "scalingRisk">>
SpecFixWeight == <<30, 25, 15, 20, 10>>

\* score x categoryWeight, in hundredths
ExactImpact(i) == input.scores[FixKeys[i]] * SpecFixWeight[i]

\* category i comes before category j: the larger weighted impact first,
\* the fixed order among equal ones
Before(i, j) ==
    \/ ExactImpact(i) > ExactImpact(j)
    \/ ExactImpact(i) = ExactImpact(j) /\ i < j

Rank(i) == 1 + Cardinality({j \in 1..5 : Before(j, i)})

\* C8: generateFixPriorities returns exactly 3 entries of 3 distinct
\* categories with their unmodified scores, in non-increasing order of
\* score x weight, omitting only categories of no larger weighted impact,
\* the fixed order speed, ux, seo, conversion, scaling deciding among equal
\* weighted impacts.
C8_FixPrioritiesOrder ==
    Done("generateFixPriorities") =>
        /\ DOMAIN result.entries = 1..3
        /\ \A i \in 1..5 :
              Rank(i) <= 3 =>
                  /\ result.entries[Rank(i)].category = FixOrder[i]
                  /\ Equals(result.entries[Rank(i)].score, input.scores[FixKeys[i]])

SpecPriority(s) ==
    IF s >= 70 THEN "High" ELSE IF s >= 40 THEN "Medium" ELSE "Low"

\* C9: every returned entry carries the label of its own raw score: High
\* when score >= 70, Medium when 40 <= score < 70, Low otherwise.
C9_PriorityFromRawScore ==
    Done("generateFixPriorities") =>
        \A k \in 1..3 :
            \E i \in 1..5 :
                /\ result.entries[k].category = FixOrder[i]
                /\ Equals(result.entries[k].score, input.scores[FixKeys[i]])
                /\ result.entries[k].priority = SpecPriority(input.scores[FixKeys[i]])

\* C9: entries labelled High whose weighted impact (at most 0.3 x 70 = 21)
\* would be labelled Low
C9_Witness ==
    /\ Done("generateFixPriorities")
    /\ \A c \in Categories : input.scores[c] = 70
    /\ \A k \in 1..3 : result.entries[k].priority = "High"

\* C10 (amended): the two cuts give every integer score the same label;
\* they differ exactly on the non-integer scores strictly between 39 and 40
\* and strictly between 69 and 70, which no entry of generateFixPriorities
\* built from integer risk scores carries.
C10_CutsAgreeOnIntegers ==
    /\ Done("getRiskLevel") =>
          ((result.label # priorityFromScore(NumScore(input.halves)))
              <=> \/ 2 * 39 < input.halves /\ input.halves < 2 * 40
                  \/ 2 * 69 < input.halves /\ input.halves < 2 * 70)
    /\ Done("generateFixPriorities") =>
          \A k \in 1..3 : result.entries[k].priority = getRiskLevel(result.entries[k].score)

\* C10: at the cut point 40 both mappings say Medium
C10_Witness ==
    /\ Done("getRiskLevel")
    /\ input.halves = 2 * 40
    /\ result.label = "Medium"
    /\ priorityFromScore(NumScore(input.halves)) = "Medium"

\* C10 (as stated): over the integers 0..100 the two mappings do not assign
\* the same label to every score: once getRiskLevel has labelled a score,
\* some integer score of 0..100 is labelled differently by the two.
C10_CutsDifferOnIntegers ==
    Done("getRiskLevel") =>
        \E s \in 0..100 : getRiskLevel(FInt(s)) # priorityFromScore(FInt(s))

\* the tiers of the specification, worst first
SpecTiers == <<"Critical", "Severe", "Significant", "Moderate", "Minimal">>

TierRank(level) == CHOOSE i \in 1..5 : SpecTiers[i] = level

\* the tier and loss range the specification gives a health written in halves
SpecImpact(halves) ==
    IF halves >= 2 * 85 THEN <<"Minimal", "0-3%">>
    ELSE IF halves >= 2 * 70 THEN <<"Moderate", "3-8%">>
    ELSE IF halves >= 2 * 50 THEN <<"Significant", "8-15%">>
    ELSE IF halves >= 2 * 30 THEN <<"Severe", "15-25%">>
    ELSE <<"Critical", "25%+">>

\* C11: estimateBusinessImpact returns (Minimal, 0-3%) for health >= 85,
\* (Moderate, 3-8%) for 70..84, (Significant, 8-15%) for 50..69,
\* (Severe, 15-25%) for 30..49 and (Critical, 25%+) below 30, and a higher
\* health never yields a worse tier.
C11_ImpactTiers ==
    Done("estimateBusinessImpact") =>
        /\ result.impact.impact_level = SpecImpact(input.halves)[1]
        /\ result.impact.estimated_conversion_loss = SpecImpact(input.halves)[2]
        /\ TierRank(estimateBusinessImpact(NumScore(input.halves + 1)).impact_level)
              >= TierRank(result.impact.impact_level)

\* C11: a health of 84 is in the Moderate tier
C11_Witness ==
    /\ Done("estimateBusinessImpact")
    /\ input.halves = 2 * 84
    /\ result.impact.impact_level = "Moderate"
    /\ result.impact.estimated_conversion_loss = "3-8%"

----------------------------------------------------------------------------
(* Properties of computeRevenueImpact.                                     *)

RevenueDone == Done("computeRevenueImpact")

\* the industry is one whose multiplier is a number
NumericMultiplier == ~IsNaN(industryMultiplier(input.industry))

\* C12: for all inputs (any metric inputs, any industry key, any
\* mobileTrafficPercent, also outside 0..100) the reported minMonthlyLoss
\* and maxMonthlyLoss are each at most monthlyRevenue.  Stated for the calls
\* whose losses are numbers.
C12_LossAtMostRevenue ==
    RevenueDone /\ NumericMultiplier =>
        /\ FLe(result.revenue.minMonthlyLoss, NumRevenue(input.monthlyRevenue))
        /\ FLe(result.revenue.maxMonthlyLoss, NumRevenue(input.monthlyRevenue))

\* The reference of the specification in exact integer arithmetic: drops in
\* hundredths, the multiplier in tenths, the mobile share in percent and the
\* revenue in tenths of a currency unit.
SpecLcpDrop(i) ==
    IF i.lcpSeconds > 40 THEN <<25, 35>> ELSE IF i.lcpSeconds > 30 THEN <<20, 30>>
    ELSE IF i.lcpSeconds > 25 THEN <<10, 15>> ELSE <<0, 0>>

SpecClsDrop(i) ==
    IF i.cls > 250 THEN <<10, 20>> ELSE IF i.cls > 100 THEN <<5, 10>> ELSE <<0, 0>>

SpecInpDrop(i) == IF i.inpMs # << >> /\ i.inpMs[1] > 500 THEN <<10, 15>> ELSE <<0, 0>>

SpecMobileDrop(i) ==
    IF i.mobilePerformanceScore < 50 THEN <<15, 25>>
    ELSE IF i.mobilePerformanceScore < 70 THEN <<8, 15>> ELSE <<0, 0>>

Least(a, b) == IF a < b THEN a ELSE b

Most(a, b) == IF a > b THEN a ELSE b

\* which = 1 for the minimum, 2 for the maximum
SpecDrop(i, which) ==
    Least(IF which = 1 THEN 50 ELSE 60,
          SpecLcpDrop(i)[which] + SpecClsDrop(i)[which] + SpecInpDrop(i)[which]
              + SpecMobileDrop(i)[which])

SpecMultiplier(industry) ==
    CASE industry = "ecommerce"  -> 12
      [] industry = "finance"    -> 13
      [] industry = "healthcare" -> 9
      [] OTHER                   -> 10

\* the loss in millionths of a currency unit, capped at the revenue
SpecLossScaled(call, which) ==
    Least(call.monthlyRevenue * SpecDrop(call.inputs, which) * SpecMultiplier(call.industry)
              * Least(100, Most(0, call.mobileTrafficPercent)),
          call.monthlyRevenue * 100000)

\* rounded to the nearest currency unit, halves upwards
SpecLoss(call, which) == (2 * SpecLossScaled(call, which) + 1000000) \div 2000000

\* C13: the monthly losses equal the reference: the drop pairs of the four
\* ladders summed, minDrop capped at 0.5 and maxDrop at 0.6 before the
\* industry multiplier, multiplied by the multiplier, by
\* clamp(mobileTrafficPercent, 0, 100)/100 and by monthlyRevenue, capped at
\* monthlyRevenue, rounded.  Stated for the calls whose losses are numbers.
C13_LossMatchesReference ==
    RevenueDone /\ NumericMultiplier =>
        /\ Equals(result.revenue.minMonthlyLoss, SpecLoss(input, 1))
        /\ Equals(result.revenue.maxMonthlyLoss, SpecLoss(input, 2))

\* two results hold the same value: the same number, or NaN both
SameValue(x, y) ==
    IF IsNaN(x) \/ IsNaN(y) THEN IsNaN(x) /\ IsNaN(y) ELSE FCmp(x, y) = 0

\* C14: in every result recoveryPotentialMin holds the value of
\* minMonthlyLoss and recoveryPotentialMax the value of maxMonthlyLoss.
C14_RecoveryIsLoss ==
    RevenueDone =>
        /\ SameValue(result.revenue.recoveryPotentialMin, result.revenue.minMonthlyLoss)
        /\ SameValue(result.revenue.recoveryPotentialMax, result.revenue.maxMonthlyLoss)

\* C14: a call with losses 45 and 72, reported as recovery potential too
C14_Witness ==
    /\ RevenueDone
    /\ Equals(result.revenue.minMonthlyLoss, 45)
    /\ Equals(result.revenue.recoveryPotentialMin, 45)
    /\ Equals(result.revenue.maxMonthlyLoss, 72)
    /\ Equals(result.revenue.recoveryPotentialMax, 72)

LossFields ==
    {"minMonthlyLoss", "maxMonthlyLoss", "minAnnualLoss", "maxAnnualLoss",
     "recoveryPotentialMin", "recoveryPotentialMax"}

\* r and g are the same result but for industryUsed
SameImpact(r, g) ==
    /\ \A f \in LossFields : ~IsNaN(r[f]) /\ SameValue(r[f], g[f])
    /\ r.confidenceScore = g.confidenceScore
    /\ r.confidenceLabel = g.confidenceLabel
    /\ r.riskDrivers = g.riskDrivers

\* C15: for any industry that is not one of the five table keys the
\* multiplier is 1.0 and the call returns what it returns for "general" with
\* the same other arguments.
C15_UnknownIndustryIsGeneral ==
    RevenueDone /\ input.industry \notin DOMAIN INDUSTRY_MULTIPLIER =>
        /\ Equals(industryMultiplier(input.industry), 1)
        /\ SameImpact(result.revenue, revenueImpactOf([input EXCEPT !.industry = "general"]))

\* the confidence of the specification, from the arguments as drawn
SpecConfidence(call) ==
    Least(100,
          (IF call.inputs.fieldDataAvailable THEN 30 ELSE 10)
          + (IF call.inputs.poorCWVCount >= 2 THEN 25
             ELSE IF call.inputs.poorCWVCount = 1 THEN 15 ELSE 5)
          + (IF call.mobileTrafficPercent >= 60 THEN 20
             ELSE IF call.mobileTrafficPercent >= 30 THEN 10 ELSE 5)
          + (IF call.inputs.lcpSeconds > 40 \/ call.inputs.mobilePerformanceScore < 40
             THEN 15 ELSE 10))

\* C16: confidenceScore equals min(100, a + b + c + d) with a = 30 if
\* fieldDataAvailable else 10; b = 25 if poorCWVCount >= 2, 15 if it is 1,
\* else 5; c = 20 if mobileTrafficPercent >= 60, 10 if >= 30, else 5; d = 15
\* if lcpSeconds > 4 or mobilePerformanceScore < 40, else 10; and it lies in
\* 0..100.
C16_ConfidenceFormula ==
    RevenueDone =>
        /\ result.revenue.confidenceScore = SpecConfidence(input)
        /\ result.revenue.confidenceScore \in 0..100

\* C16: one poor Core Web Vital, no field data, a mobile share of 30 and
\* neither a slow LCP nor a low mobile score: 10 + 15 + 10 + 10
C16_Witness ==
    /\ RevenueDone
    /\ ~input.inputs.fieldDataAvailable
    /\ input.inputs.poorCWVCount = 1
    /\ input.mobileTrafficPercent = 30
    /\ input.inputs.lcpSeconds = 40
    /\ input.inputs.mobilePerformanceScore = 40
    /\ result.revenue.confidenceScore = 45

SpecConfidenceLabel(score) ==
    IF score >= 75 THEN "High" ELSE IF score >= 45 THEN "Medium" ELSE "Low"

\* three calls, of confidence 30, 45 and 75
LabelSamples ==
    { [kind |-> "revenue",
       inputs |-> [lcpSeconds |-> 40, cls |-> 100, inpMs |-> << >>,
                   mobilePerformanceScore |-> 40, fieldDataAvailable |-> f,
                   poorCWVCount |-> p],
       monthlyRevenue |-> 1000, mobileTrafficPercent |-> t, industry |-> "general"] :
        <<f, p, t>> \in {<<FALSE, 0, 29>>, <<FALSE, 1, 30>>, <<TRUE, 2, 30>>} }

labelOfCall(call) ==
    confidenceLabelOf(capConfidence(confidenceOf(NumInputs(call.inputs),
                                                 FInt(call.mobileTrafficPercent))))

\* C17: confidenceLabel is a function of confidenceScore alone: High when
\* the score is >= 75, Medium when 45 <= score < 75, Low otherwise; and each
\* of the three labels is produced for some input.
C17_LabelFromScore ==
    RevenueDone =>
        /\ result.revenue.confidenceLabel = SpecConfidenceLabel(result.revenue.confidenceScore)
        /\ LabelSamples \subseteq RevenueInputs
        /\ \A label \in {"High", "Medium", "Low"} :
              \E call \in LabelSamples : labelOfCall(call) = label

\* C17: the score 75, the lowest that is High
C17_Witness ==
    /\ RevenueDone
    /\ result.revenue.confidenceScore = 75
    /\ result.revenue.confidenceLabel = "High"

SpecDrivers(i) ==
    [lcpImpact    |-> IF i.lcpSeconds > 40 THEN "High" ELSE IF i.lcpSeconds > 30 THEN "Moderate"
                      ELSE IF i.lcpSeconds > 25 THEN "Low" ELSE "None",
     clsImpact    |-> IF i.cls > 250 THEN "High" ELSE IF i.cls > 100 THEN "Moderate" ELSE "Low",
     inpImpact    |-> IF i.inpMs # << >> /\ i.inpMs[1] > 500 THEN "High" ELSE "Low",
     mobileImpact |-> IF i.mobilePerformanceScore < 50 THEN "High"
                      ELSE IF i.mobilePerformanceScore < 70 THEN "Moderate" ELSE "Low"]

\* the same metrics with another revenue, mobile share and industry
OtherBusiness(call) ==
    [call EXCEPT !.monthlyRevenue = IF @ = 7 THEN 1000 ELSE 7,
                 !.mobileTrafficPercent = IF @ = 100 THEN -10 ELSE 100,
                 !.industry = IF @ = "finance" THEN "constructor" ELSE "finance"]

\* C18: each driver label depends on its own metric only: lcpImpact is
\* High/Moderate/Low/None for lcpSeconds > 4 / > 3 / > 2.5 / otherwise,
\* clsImpact High/Moderate/Low for cls > 0.25 / > 0.1 / otherwise, inpImpact
\* High iff inpMs is non-null and > 500 and Low otherwise, mobileImpact
\* High/Moderate/Low for a score < 50 / < 70 / otherwise; another
\* monthlyRevenue, mobileTrafficPercent or industry changes no label.
C18_DriverLabels ==
    RevenueDone =>
        /\ result.revenue.riskDrivers = SpecDrivers(input.inputs)
        /\ result.revenue.riskDrivers = revenueImpactOf(OtherBusiness(input)).riskDrivers

\* C18: every metric at a threshold, labelled as below it, and inpMs null
C18_Witness ==
    /\ RevenueDone
    /\ input.inputs.lcpSeconds = 30 /\ input.inputs.cls = 250
    /\ input.inputs.inpMs = << >> /\ input.inputs.mobilePerformanceScore = 50
    /\ result.revenue.riskDrivers =
           [lcpImpact |-> "Low", clsImpact |-> "Moderate", inpImpact |-> "Low",
            mobileImpact |-> "Moderate"]

----------------------------------------------------------------------------
(* Properties of rateLimit.                                                *)

\* the number of calls for key that returned true at times t with
\* now - WINDOW_MS < t <= now
PassedInWindow(key) == Len(Later(passed[key], now - WINDOW_MS))

\* C19: for every key at most LIMIT calls of rateLimit(key) return true
\* within any interval of WINDOW_MS (taken half-open, so two calls exactly
\* WINDOW_MS apart are not in one interval), and a call returns false only
\* when LIMIT calls for its key have returned true within the interval that
\* ends with it.
C19_TenPerMinute ==
    /\ \A key \in Clients : PassedInWindow(key) <= LIMIT
    /\ (result.op = "rateLimit" /\ result.at = now /\ ~result.allowed)
           => PassedInWindow(result.key) >= LIMIT

----------------------------------------------------------------------------
(* Properties of the cache.                                                *)

\* the TTL of a call of setCache, 600 000 ms when none is given
SpecTtl(ttlMs) == IF ttlMs = << >> THEN 600000 ELSE ttlMs[1]

\* what a read of key at the time at returns, by the last setCache of key
SpecRead(key, at) ==
    IF written[key] = NoEntry THEN << >>
    ELSE IF at <= written[key][1].at + SpecTtl(written[key][1].ttlMs)
    THEN <<written[key][1].data>>
    ELSE << >>

\* C20: getCache(k) returns the data of the most recent setCache(k, data,
\* ttl) if the current time is at most that call's time + ttl (600 000 ms
\* when ttl is omitted) and undefined if k was never set or that time has
\* passed; a read that returns undefined leaves no entry for k; and
\* setCache(k) replaces the value and restarts the TTL.
C20_CacheReads ==
    /\ result.op = "getCache" =>
          /\ result.found = SpecRead(result.key, result.at)
          /\ result.found = << >> => cache[result.key] = NoEntry
    /\ result.op = "setCache" =>
          cache[result.key] =
              <<[data |-> result.data, expiresAt |-> result.at + SpecTtl(result.ttlMs)]>>

\* C20: a key written twice, read after the TTL of the first write and
\* before that of the second has passed: the second value is returned
C20_Witness ==
    /\ result.op = "getCache"
    /\ result.found = <<"second">>
    /\ written[result.key] = <<[data |-> "second", ttlMs |-> << >>, at |-> 1]>>
    /\ result.at = 1 + DEFAULT_TTL_MS

----------------------------------------------------------------------------
(* Properties of linearRisk.                                               *)

\* the number nearest to 100 * (value - low) / (high - low)
SpecLinearRisk(metric, value) ==
    IF value <= Thresholds[metric][1] THEN Zero
    ELSE IF value >= Thresholds[metric][2] THEN Hundred
    ELSE FDec(100 * (value - Thresholds[metric][1]),
              Thresholds[metric][2] - Thresholds[metric][1])

\* C21 (range and order): the result lies in [0, 100] and does not decrease
\* when value grows
C21_LinearRiskMonotone ==
    Done("linearRisk") =>
        /\ FLe(Zero, result.value) /\ FLe(result.value, Hundred)
        /\ FLe(result.value, linearRiskOf(input.metric, input.value + 1))

----------------------------------------------------------------------------
(* The confidence terms of computeRevenueImpact.                           *)

\* the sum of the four terms of the call, before the cap
TermSum == confidenceOf(NumInputs(input.inputs), FInt(input.mobileTrafficPercent))

\* C29: for every input the sum of the four confidence terms lies between
\* 30 and 90 inclusive, so the cap at 100 never changes the confidence
\* score.
C29_ConfidenceSumRange ==
    RevenueDone =>
        /\ TermSum \in 30..90
        /\ result.revenue.confidenceScore = TermSum
        /\ result.revenue.confidenceScore \in 30..90

\* C29: the largest sum, 30 + 25 + 20 + 15
C29_Witness ==
    /\ RevenueDone
    /\ input.inputs.fieldDataAvailable /\ input.inputs.poorCWVCount = 3
    /\ input.mobileTrafficPercent = 150 /\ input.inputs.lcpSeconds = 41
    /\ result.revenue.confidenceScore = 90

----------------------------------------------------------------------------
(* The summary of an analysis response.                                    *)

\* C28: within one response risk_level and the impact tier come from the
\* same overallHealth h, risk_level being getRiskLevel(100 - h): risk_level
\* High (h <= 30) implies an impact_level of Severe or Critical, risk_level
\* Low (h >= 61) implies Minimal, Moderate or Significant, and impact_level
\* Minimal (h >= 85) implies risk_level Low.
C28_LevelAndTierAgree ==
    Done("summary") =>
        LET h      == AsInt(result.summary.overall_health_score)
            level  == result.summary.risk_level
            impact == result.summary.business_impact.impact_level
        IN  /\ IsInteger(result.summary.overall_health_score) /\ h \in 0..100
            /\ level = "High" <=> h <= 30
            /\ level = "Low" <=> h >= 61
            /\ impact = "Minimal" <=> h >= 85
            /\ level = "High" => impact \in {"Severe", "Critical"}
            /\ level = "Low" => impact \in {"Minimal", "Moderate", "Significant"}
            /\ impact = "Minimal" => level = "Low"

\* C28: a health of 30, the highest with risk_level High, in the tier Severe
C28_Witness ==
    /\ Done("summary")
    /\ Equals(result.summary.overall_health_score, 30)
    /\ result.summary.risk_level = "High"
    /\ result.summary.business_impact.impact_level = "Severe"

----------------------------------------------------------------------------
(* The windows of rateLimit.                                               *)

\* the step is a call of rateLimit
CallOfRateLimit == input'.calls = input.calls + 1 /\ result'.op = "rateLimit"

\* the call for key finds no window that is still running
OpensWindow(key) == store[key] = NoEntry \/ now >= store[key][1].resetTime

\* the calls for key that returned true since its window was opened
PassedSinceOpened(key) == Len(Later(passed[key], store[key][1].resetTime - 60000 - 1))

\* every call either opens a window of 60 000 ms and is allowed, or counts
\* in the running window, is allowed iff it is among the first 10 and
\* leaves resetTime alone; the entries of the other keys are untouched
WindowStep ==
    CallOfRateLimit =>
        /\ OpensWindow(result'.key) =>
              /\ result'.allowed
              /\ store'[result'.key] = <<[count |-> 1, resetTime |-> now + 60000]>>
        /\ ~OpensWindow(result'.key) =>
              /\ store'[result'.key][1].resetTime = store[result'.key][1].resetTime
              /\ store'[result'.key][1].count = store[result'.key][1].count + 1
              /\ result'.allowed <=> store'[result'.key][1].count <= 10
        /\ \A other \in Clients \ {result'.key} :
              store'[other] = store[other] /\ passed'[other] = passed[other]

\* in a running window the first 10 calls and no others have returned true
WindowCount ==
    \A key \in Clients :
        (store[key] # NoEntry /\ now < store[key][1].resetTime) =>
            PassedSinceOpened(key) = Least(store[key][1].count, 10)

\* C23: rateLimit keeps a fixed window per key that rejected calls cannot
\* extend: the first call for a key, or the first at or after resetTime,
\* opens a window of 60 000 ms and is allowed; exactly the first 10 calls in
\* the window return true and every later one returns false without
\* changing resetTime, so a rejected key is allowed again at the first call
\* at or after resetTime; calls for one key change nothing for another key.
C23_FixedWindow == []WindowCount /\ [][WindowStep]_vars

\* C23: the eleventh call of a window is rejected and resetTime stays
C23_Witness ==
    /\ result.op = "rateLimit" /\ ~result.allowed /\ result.at = 1
    /\ store[result.key] = <<[count |-> 11, resetTime |-> 60000]>>

----------------------------------------------------------------------------
(* The GET handler of src/app/api/analyze/route.ts.                        *)

Status(handler) == IF handler.response = << >> THEN 0 ELSE handler.response[1].status

Kinds(handler) == {handler.effects[i].kind : i \in DOMAIN handler.effects}

HandlerHas(handler, kind, key) ==
    \E i \in DOMAIN handler.effects : handler.effects[i] = Effect(kind, key)

Received == Len(handlers') = Len(handlers) + 1

\* a handler called rateLimit with its client first and never again, and
\* one answered 429 did nothing else
RateLimitFirst ==
    \A r \in DOMAIN handlers :
        /\ handlers[r].effects # << >>
        /\ handlers[r].effects[1] = Effect("rateLimit", handlers[r].query.ip)
        /\ \A i \in 2..Len(handlers[r].effects) : handlers[r].effects[i].kind # "rateLimit"
        /\ Status(handlers[r]) = 429 => Len(handlers[r].effects) = 1

\* the count of a client's window after one more request
OneMore(key) ==
    IF store[key] = NoEntry \/ now >= store[key][1].resetTime THEN 1 ELSE store[key][1].count + 1

\* the windows change when a request arrives and at no other step: the
\* request adds one to the count of its client's window and leaves the other
\* windows alone, and one answered 429 leaves the cache alone
RateLimitStep ==
    /\ ~Received => store' = store
    /\ Received =>
          /\ \A key \in Clients \ {handlers'[Len(handlers')].query.ip} : store'[key] = store[key]
          /\ store'[handlers'[Len(handlers')].query.ip] # NoEntry
          /\ store'[handlers'[Len(handlers')].query.ip][1].count
                = OneMore(handlers'[Len(handlers')].query.ip)
          /\ Status(handlers'[Len(handlers')]) = 429 => cache' = cache

\* C26: rateLimit(ip) is called exactly once per request and before any
\* other effect: a request answered 429 reads and writes no cache entry and
\* makes no external call, and every other request, one answered 400 for a
\* missing url and one served from the cache included, takes one unit of
\* its client's window.
C26_RateLimitOncePerRequest == []RateLimitFirst /\ [][RateLimitStep]_vars

\* a request without url was answered 400 and took the last unit of its
\* client's window, and the next request of that client was answered 429
C26_Witness ==
    /\ Len(handlers) = 2
    /\ Status(handlers[1]) = 400 /\ Status(handlers[2]) = 429
    /\ handlers[1].query.ip = handlers[2].query.ip
    /\ store[handlers[1].query.ip][1].count = LIMIT + 1

ErrorStatuses == {429, 400, 500}

\* handler r is answered in this step
AnsweredNow(r) ==
    /\ Status(handlers'[r]) # 0
    /\ r \in DOMAIN handlers => Status(handlers[r]) = 0

\* a handler answered with an error called no setCache with its url, no
\* entry under a url of a request holds an error body, and no response with
\* status 200 is one
NoFailureStored ==
    /\ \A r \in DOMAIN handlers :
          Status(handlers[r]) \in ErrorStatuses /\ handlers[r].query.url # << >>
             => ~HandlerHas(handlers[r], "setCache", handlers[r].query.url[1])
    /\ \A key \in RequestUrls :
          cache[key] # NoEntry => "error" \notin DOMAIN cache[key][1].data
    /\ \A r \in DOMAIN handlers :
          Status(handlers[r]) = 200 => "error" \notin DOMAIN handlers[r].response[1].body

\* the step that answers with an error leaves the entry of the request's
\* url as it was
ErrorStep ==
    \A r \in DOMAIN handlers' :
        AnsweredNow(r) /\ Status(handlers'[r]) \in ErrorStatuses /\ handlers'[r].query.url # << >>
           => cache'[handlers'[r].query.url[1]] = cache[handlers'[r].query.url[1]]

\* C25: a GET answered with an error status (429, 400, or 500 for a failed
\* PageSpeed request, a Lighthouse result without audits or an exception)
\* stores no entry under the url of the request, and no request is served
\* a failure from the cache.
C25_NoFailureCached == []NoFailureStored /\ [][ErrorStep]_vars

\* a request was answered 500 after the analysis of its metric was cached,
\* there is no entry under its url, and the other request for the url
\* fetched the page and was answered 200
C25_Witness ==
    /\ Len(handlers) = 2
    /\ Status(handlers[1]) = 500 /\ Status(handlers[2]) = 200
    /\ handlers[1].query.url = <<AnalyzedUrl>> /\ handlers[2].query.url = <<AnalyzedUrl>>
    /\ "setCache" \in Kinds(handlers[1])
    /\ HandlerHas(handlers[2], "fetch", AnalyzedUrl)
    /\ now = 0

\* the revenue impact of a request for the inputs in its response
ownRevenueImpact(handler) ==
    computeRevenueImpact(NumInputs(handler.response[1].body.revenueImpactInputs),
                         NumRevenue(handler.query.revenue), FInt(handler.query.mobileShare),
                         handler.query.industry)

\* no entry under a url of a request has a revenueImpact, and a response
\* has one only for a request with a revenue above 0, computed from the
\* revenue, mobileShare and industry of that request
RevenueImpactOwn ==
    /\ \A key \in RequestUrls :
          cache[key] # NoEntry => "revenueImpact" \notin DOMAIN cache[key][1].data
    /\ \A r \in DOMAIN handlers :
          Status(handlers[r]) = 200 /\ "revenueImpact" \in DOMAIN handlers[r].response[1].body
             => /\ handlers[r].query.revenue > 0
                /\ handlers[r].response[1].body.revenueImpact = ownRevenueImpact(handlers[r])

\* a request served from the cache leaves the entry as it was
HitStep ==
    Received /\ Status(handlers'[Len(handlers')]) = 200
       => cache'[handlers'[Len(handlers')].query.url[1]]
             = cache[handlers'[Len(handlers')].query.url[1]]

\* C24: revenueImpact does not pass from one request to another through the
\* cache: no entry stored under a url has a revenueImpact field, a cache hit
\* leaves the entry unchanged, and a response has a revenueImpact only when
\* the revenue of its own request is above 0, computed from the revenue,
\* mobileShare and industry of that request, on a hit and on a miss.
C24_RevenueImpactNotShared == []RevenueImpactOwn /\ [][HitStep]_vars

\* a request without revenue had the page analysed, and a request for the
\* same url with a revenue was served from the cache with its revenue impact
C24_Witness ==
    /\ Len(handlers) = 2
    /\ Status(handlers[1]) = 200 /\ Status(handlers[2]) = 200
    /\ handlers[1].query.url = handlers[2].query.url
    /\ handlers[1].query.revenue = 0 /\ handlers[2].query.revenue > 0
    /\ "fetch" \in Kinds(handlers[1]) /\ "fetch" \notin Kinds(handlers[2])
    /\ "revenueImpact" \notin DOMAIN handlers[1].response[1].body
    /\ "revenueImpact" \in DOMAIN handlers[2].response[1].body

\* both handlers fetched PageSpeed for one url and were answered 200
FetchedTwice(r1, r2) ==
    /\ r1 # r2
    /\ Status(handlers[r1]) = 200 /\ Status(handlers[r2]) = 200
    /\ handlers[r1].query.url = handlers[r2].query.url
    /\ HandlerHas(handlers[r1], "fetch", handlers[r1].query.url[1])
    /\ HandlerHas(handlers[r2], "fetch", handlers[r2].query.url[1])

\* C22: under any interleaving of the handlers, two requests for one
\* uncached url that both wait for PageSpeed included, at most one PageSpeed
\* fetch is made for a url within the 10 minutes of a cached response after
\* a successful analysis began.  As long as no more than DEFAULT_TTL_MS have
\* passed since the start, every fetch lies within that time.
C22_OneFetchPerUrl ==
    now <= DEFAULT_TTL_MS
       => \A r1 \in DOMAIN handlers, r2 \in DOMAIN handlers : ~FetchedTwice(r1, r2)

\* a request that arrives while a response for its url is cached and has
\* not expired makes no PageSpeed fetch
FreshHitStep ==
    (/\ Received
     /\ handlers'[Len(handlers')].query.url # << >>
     /\ cache[handlers'[Len(handlers')].query.url[1]] # NoEntry
     /\ now <= cache[handlers'[Len(handlers')].query.url[1]][1].expiresAt)
       => "fetch" \notin Kinds(handlers'[Len(handlers')])

C22_NoFetchWhileCached == [][FreshHitStep]_vars

\* the fields of the response object of an analysis
AnalysisFields == DOMAIN analysisResponse("good", << >>)

\* C27: the cached responses and the cached AI analyses of the metrics do
\* not meet in the cache: getCache(url) returns for no request url a value
\* that was stored under a key "ai:<url>:<metricKey>", so a request served
\* from the cache is answered with a full analysis response object.
C27_HitIsAnalysis ==
    \A r \in DOMAIN handlers :
        Status(handlers[r]) = 200 => AnalysisFields \subseteq DOMAIN handlers[r].response[1].body

====
